---- MODULE Spec2Model ----
(***************************************************************************)
(* Appointment scheduling core of the Diamond Family assistant:            *)
(* GHLMCPClient, CustomerInfoExtractor and GHLAppointmentScheduler of      *)
(* src/src/tools/ghl_mcp_client.py.                                        *)
(*                                                                         *)
(* Python strings are sequences of one-character strings, so that lower(), *)
(* slicing, joining and the substring test "in" are computed as the code   *)
(* computes them.  Python values whose type matters (the parsed body of a  *)
(* remote response, Optional[str]) are records tagged with their type.     *)
(* A coroutine runs atomically between two suspension points; the only     *)
(* suspension of the scheduling path is the remote POST of call_mcp_tool.  *)
(***************************************************************************)
EXTENDS Integers, Sequences, FiniteSets, TLC

VARIABLES
    config,     \* the GHLMCPClient instance: base_url, timeout, calendar_mappings, available_tools
    task,       \* per caller: the coroutine in progress, its arguments, locals, request and outcome
    context,    \* argument of a stand-alone select_calendar call
    calendar,   \* value returned by that call
    summary_call,   \* a stand-alone generate_conversation_summary call: arguments and value
    extract_call,   \* a stand-alone extract_contact_info call: argument and value
    helper,     \* stand-alone calls of get_calendar_type, get_available_calendars and the
                \* category scan of test_calendar_selection: arguments and values
    search_call,    \* a stand-alone WebSearchTool.search call: query, remote answer and value
    ghl_scheduler,  \* app.py: whether the module-level ghl_scheduler is set
    memory,     \* app.py: the process-wide chat history
    http        \* app.py: per caller, the request being served and the response given

vars == <<config, task, context, calendar, summary_call, extract_call,
          helper, search_call, ghl_scheduler, memory, http>>

\* the stand-alone calls of the pure functions, and the state of app.py that
\* the client and the scheduler never touch
calls == <<context, calendar, summary_call, extract_call, helper, search_call, ghl_scheduler, memory>>

----------------------------------------------------------------------------
(* Bounds of the model *)

\* number of vocabulary words joined into a select_calendar context
MaxWords == 2

\* number of messages of a transcript handed to generate_conversation_summary
MaxMessages == 7

\* number of stand-alone get_calendar_type calls
MaxLookups == 2

\* entries of the chat memory
MaxMemory == 4

----------------------------------------------------------------------------
(* String literals of the source *)

StrMissingInfo ==
    <<"M", "i", "s", "s", "i", "n", "g", " ", "r", "e", "q", "u", "i", "r", "e", "d", " ", "c", "u", "s", "t", "o", "m", "e", "r", " ", "i", "n", "f", "o", "r", "m", "a", "t", "i", "o", "n", " ", "(", "n", "a", "m", "e", ",", " ", "e", "m", "a", "i", "l", ",", " ", "p", "h", "o", "n", "e", ")">>
TxtPreferred ==
    <<"2", "0", "2", "4", "-", "0", "2", "-", "1", "5", "T", "1", "4", ":", "3", "0", ":", "0", "0">>
UpperChars ==
    <<"A", "B", "C", "D", "E", "F", "G", "H", "I", "J", "K", "L", "M", "N", "O", "P", "Q", "R", "S", "T", "U", "V", "W", "X", "Y", "Z">>
LowerChars ==
    <<"a", "b", "c", "d", "e", "f", "g", "h", "i", "j", "k", "l", "m", "n", "o", "p", "q", "r", "s", "t", "u", "v", "w", "x", "y", "z">>
KwAppraisals ==
    << <<"a", "p", "p", "r", "a", "i", "s", "a", "l">>,
       <<"a", "p", "p", "r", "a", "i", "s", "e">>,
       <<"e", "v", "a", "l", "u", "a", "t", "i", "o", "n">>,
       <<"a", "s", "s", "e", "s", "s", "m", "e", "n", "t">>,
       <<"v", "a", "l", "u", "e">>,
       <<"w", "o", "r", "t", "h">> >>
KwCustom ==
    << <<"c", "u", "s", "t", "o", "m">>,
       <<"d", "e", "s", "i", "g", "n">>,
       <<"b", "e", "s", "p", "o", "k", "e">>,
       <<"p", "e", "r", "s", "o", "n", "a", "l", "i", "z", "e", "d">>,
       <<"u", "n", "i", "q", "u", "e">> >>
KwCampaign ==
    << <<"c", "a", "m", "p", "a", "i", "g", "n">>,
       <<"p", "r", "o", "m", "o", "t", "i", "o", "n">>,
       <<"s", "p", "e", "c", "i", "a", "l", " ", "o", "f", "f", "e", "r">>,
       <<"d", "e", "a", "l">> >>
StrError == <<"e", "r", "r", "o", "r">>
StrCustomer == <<"C", "u", "s", "t", "o", "m", "e", "r">>
StrAssistant == <<"A", "s", "s", "i", "s", "t", "a", "n", "t">>
StrSummaryPrefix == <<"C", "o", "n", "v", "e", "r", "s", "a", "t", "i", "o", "n", " ", "S", "u", "m", "m", "a", "r", "y", ":", " ">>
StrNoData == <<"N", "o", " ", "c", "o", "n", "v", "e", "r", "s", "a", "t", "i", "o", "n", " ", "d", "a", "t", "a", " ", "a", "v", "a", "i", "l", "a", "b", "l", "e", ".">>
StrSpace == <<" ">>
ToolCreateContactSchedule ==
    <<"c", "r", "e", "a", "t", "e", "_", "c", "o", "n", "t", "a", "c", "t", "_", "a", "d", "d", "_", "n", "o", "t", "e", "s", "_", "s", "c", "h", "e", "d", "u", "l", "e", "_", "a", "p", "p", "o", "i", "n", "t", "m", "e", "n", "t">>
ToolDeleteEverything ==
    <<"d", "e", "l", "e", "t", "e", "_", "e", "v", "e", "r", "y", "t", "h", "i", "n", "g">>
StrCommFailed ==
    <<"M", "C", "P", " ", "s", "e", "r", "v", "e", "r", " ", "c", "o", "m", "m", "u", "n", "i", "c", "a", "t", "i", "o", "n", " ", "f", "a", "i", "l", "e", "d", ":", " ">>

----------------------------------------------------------------------------
(* Fixed numbers of the source *)

SummaryWindow == 6
ContentLimit == 100
DefaultMaxLength == 500
EllipsisLen == 3
AppointmentHour == 14
Saturday == 5
DaysPerWeek == 7
TimeoutSeconds == 30
HttpErrorFloor == 400

----------------------------------------------------------------------------
(* Python values *)

PyNone == [type |-> "NoneType"]
PyStr(s) == [type |-> "str", s |-> s]
PyInt(n) == [type |-> "int", n |-> n]
PyList(items) == [type |-> "list", items |-> items]
PyDict(fields) == [type |-> "dict", fields |-> fields]

\* bool(v) of an Optional[str]
Truthy(v) == v.type = "str" /\ v.s # <<>>

\* how a call ends
Return(v) == [how |-> "return", value |-> v]
Raise(exc, msg) == [how |-> "raise", exc |-> exc, msg |-> msg]

----------------------------------------------------------------------------
(* str operations *)

LowerChar(c) ==
    IF \E i \in 1..Len(UpperChars) : UpperChars[i] = c
    THEN LowerChars[CHOOSE i \in 1..Len(UpperChars) : UpperChars[i] = c]
    ELSE c

\* s.lower()
Lower(s) == [i \in 1..Len(s) |-> LowerChar(s[i])]

\* needle in hay
Contains(hay, needle) ==
    \E i \in 0..(Len(hay) - Len(needle)) : SubSeq(hay, i + 1, i + Len(needle)) = needle

\* s[:k], k of either sign
SliceTo(s, k) ==
    IF k >= 0
    THEN SubSeq(s, 1, IF k < Len(s) THEN k ELSE Len(s))
    ELSE SubSeq(s, 1, Len(s) + k)

\* s[-(n - 1):]
LastNShort(s, n) == SubSeq(s, IF Len(s) > n - 1 THEN Len(s) - n + 2 ELSE 1, Len(s))

\* s[-n:], n > 0
LastN(s, n) == SubSeq(s, IF Len(s) > n THEN Len(s) - n + 1 ELSE 1, Len(s))

RECURSIVE Join(_, _)
\* sep.join(parts)
Join(sep, parts) ==
    IF parts = <<>> THEN <<>>
    ELSE IF Len(parts) = 1 THEN parts[1]
    ELSE parts[1] \o sep \o Join(sep, Tail(parts))

----------------------------------------------------------------------------
(* GHLMCPClient *)

calendar_mappings ==
    [demo           |-> "1a2FZj1zqXPbPnrElQD1",
     custom_jewelry |-> "1c0RCj9LXQr9iDQaDTn9",
     appraisals     |-> "7pRF2Il5lcRZIMBdSkBx",
     campaign       |-> "CuOcD0x88h7NPvfub9",
     default        |-> "1a2FZj1zqXPbPnrElQD1"]

\* self.available_tools: get_contact_info, list_opportunities, trigger_webhook,
\* get_pipeline_info, create_note, search_contacts, get_contact_activities,
\* create_opportunity, create_contact_and_schedule
available_tools ==
    <<<<"g", "e", "t", "_", "c", "o", "n", "t", "a", "c", "t", "_", "i", "n", "f", "o">>, <<"l", "i", "s", "t", "_", "o", "p", "p", "o", "r", "t", "u", "n", "i", "t", "i", "e", "s">>, <<"t", "r", "i", "g", "g", "e", "r", "_", "w", "e", "b", "h", "o", "o", "k">>,
      <<"g", "e", "t", "_", "p", "i", "p", "e", "l", "i", "n", "e", "_", "i", "n", "f", "o">>, <<"c", "r", "e", "a", "t", "e", "_", "n", "o", "t", "e">>, <<"s", "e", "a", "r", "c", "h", "_", "c", "o", "n", "t", "a", "c", "t", "s">>,
      <<"g", "e", "t", "_", "c", "o", "n", "t", "a", "c", "t", "_", "a", "c", "t", "i", "v", "i", "t", "i", "e", "s">>, <<"c", "r", "e", "a", "t", "e", "_", "o", "p", "p", "o", "r", "t", "u", "n", "i", "t", "y">>, ToolCreateContactSchedule>>

\* the instance built by __init__ (base_url after rstrip('/'))
NewClient ==
    [base_url          |-> "http://mcp.local",
     timeout           |-> TimeoutSeconds,
     calendar_mappings |-> calendar_mappings,
     available_tools   |-> available_tools]

\* self.calendar_mappings.values()
MappingValues(self) == {self.calendar_mappings[k] : k \in DOMAIN self.calendar_mappings}

\* any(word in context_lower for word in words)
AnyWord(words, context_lower) ==
    \E k \in 1..Len(words) : Contains(context_lower, words[k])

\* the custom bucket is tested before the appraisal bucket
select_calendar_custom_first(self, conversation_context) ==
    LET context_lower == Lower(conversation_context)
    IN  IF AnyWord(KwCustom, context_lower) THEN self.calendar_mappings["custom_jewelry"]
        ELSE IF AnyWord(KwAppraisals, context_lower) THEN self.calendar_mappings["appraisals"]
        ELSE IF AnyWord(KwCampaign, context_lower) THEN self.calendar_mappings["campaign"]
        ELSE self.calendar_mappings["demo"]

\* the fall-through looks up a category that the mapping does not have
select_calendar_no_fallback(self, conversation_context) ==
    LET context_lower == Lower(conversation_context)
    IN  IF AnyWord(KwAppraisals, context_lower) THEN self.calendar_mappings["appraisals"]
        ELSE IF AnyWord(KwCustom, context_lower) THEN self.calendar_mappings["custom_jewelry"]
        ELSE IF AnyWord(KwCampaign, context_lower) THEN self.calendar_mappings["campaign"]
        ELSE "Unknown"

select_calendar(self, conversation_context) ==
    LET context_lower == Lower(conversation_context)
    IN  IF AnyWord(KwAppraisals, context_lower) THEN self.calendar_mappings["appraisals"]
        ELSE IF AnyWord(KwCustom, context_lower) THEN self.calendar_mappings["custom_jewelry"]
        ELSE IF AnyWord(KwCampaign, context_lower) THEN self.calendar_mappings["campaign"]
        ELSE self.calendar_mappings["demo"]

\* the campaign calendar has no label
calendar_map_without_campaign ==
    [id \in {"1a2FZj1zqXPbPnrElQD1", "1c0RCj9LXQr9iDQaDTn9", "7pRF2Il5lcRZIMBdSkBx"} |->
        CASE id = "1a2FZj1zqXPbPnrElQD1" -> "Demo"
          [] id = "1c0RCj9LXQr9iDQaDTn9" -> "Custom Jewelry Design"
          [] id = "7pRF2Il5lcRZIMBdSkBx" -> "Appraisals"]

calendar_map ==
    [id \in {"1a2FZj1zqXPbPnrElQD1", "1c0RCj9LXQr9iDQaDTn9",
             "7pRF2Il5lcRZIMBdSkBx", "CuOcD0x88h7NPvfub9"} |->
        CASE id = "1a2FZj1zqXPbPnrElQD1" -> "Demo"
          [] id = "1c0RCj9LXQr9iDQaDTn9" -> "Custom Jewelry Design"
          [] id = "7pRF2Il5lcRZIMBdSkBx" -> "Appraisals"
          [] id = "CuOcD0x88h7NPvfub9" -> "Campaign"]

\* calendar_map.get(calendar_id, calendar_id)
get_calendar_type_echo(calendar_id) ==
    IF calendar_id \in DOMAIN calendar_map THEN calendar_map[calendar_id] ELSE calendar_id

get_calendar_type(calendar_id) ==
    IF calendar_id \in DOMAIN calendar_map THEN calendar_map[calendar_id] ELSE "Unknown"

\* {calendar_id: self.get_calendar_type(calendar_id) for calendar_id in self.calendar_mappings.values()}
get_available_calendars(self) ==
    [calendar_id \in MappingValues(self) |-> get_calendar_type(calendar_id)]

\* the keys of calendar_mappings in the order of the dictionary
calendar_keys == <<"demo", "custom_jewelry", "appraisals", "campaign", "default">>

\* test_calendar_selection: the first cal_type of calendar_mappings.items()
\* whose cal_id is selected_calendar, None when there is none
calendar_type_of(self, selected_calendar) ==
    LET hits == {i \in 1..Len(calendar_keys) :
                    self.calendar_mappings[calendar_keys[i]] = selected_calendar}
    IN  IF hits = {} THEN "None"
        ELSE calendar_keys[CHOOSE i \in hits : \A j \in hits : i <= j]

\* only Sunday is skipped
SkipWeekendSundayOnly(day) ==
    IF day % DaysPerWeek > Saturday THEN day + 1 ELSE day

RECURSIVE SkipWeekendSteps(_)
\* number of times the body of the weekend loop runs
SkipWeekendSteps(day) ==
    IF day % DaysPerWeek >= Saturday THEN 1 + SkipWeekendSteps(day + 1) ELSE 0

RECURSIVE SkipWeekend(_)
\* while next_business_day.weekday() >= 5: next_business_day += timedelta(days=1)
SkipWeekend(day) ==
    IF day % DaysPerWeek >= Saturday THEN SkipWeekend(day + 1) ELSE day

\* the preferred time is not looked at
suggest_appointment_time_default(preferred_time, now) ==
    [type |-> "str",
     iso  |-> [day |-> SkipWeekend(now.day + 1), hour |-> AppointmentHour,
               minute |-> 0, second |-> 0, microsecond |-> 0]]

\* now is the reading of datetime.now(): day number (day 0 a Monday) and time of day
suggest_appointment_time(preferred_time, now) ==
    IF Truthy(preferred_time)
    THEN preferred_time
    ELSE [type |-> "str",
          iso  |-> [day |-> SkipWeekend(now.day + 1), hour |-> AppointmentHour,
                    minute |-> 0, second |-> 0, microsecond |-> 0]]

\* no allow-list check
ToolAvailableAlways(self, tool_name) == TRUE

\* tool_name in self.available_tools
ToolAvailable(self, tool_name) ==
    \E i \in 1..Len(self.available_tools) : self.available_tools[i] = tool_name

\* value returned for a tool outside the allow-list
\* f"Tool '{tool_name}' not available. Available tools: {', '.join(self.available_tools)}"
ToolNotAvailable(self, tool_name) ==
    PyDict([error |-> PyStr(<<"T", "o", "o", "l", " ", "'">> \o tool_name \o <<"'", " ", "n", "o", "t", " ", "a", "v", "a", "i", "l", "a", "b", "l", "e", ".", " ", "A", "v", "a", "i", "l", "a", "b", "l", "e", " ", "t", "o", "o", "l", "s", ":", " ">>
                            \o Join(<<",", " ">>, self.available_tools))])

\* the POST to {base_url}/mcp/call_tool
Post(self, tool_name, arguments) ==
    [url     |-> <<self.base_url, "/mcp/call_tool">>,
     timeout |-> self.timeout,
     headers |-> [content_type |-> "application/json"],
     json    |-> [tool_name |-> tool_name, arguments |-> arguments]]

\* exception classes deriving from aiohttp.ClientError
ClientErrors ==
    {"ClientConnectorError", "ServerTimeoutError", "ClientResponseError", "ContentTypeError"}

\* the parsed body is wrapped in a result envelope
TryPostEnveloped(outcome) ==
    IF outcome.kind = "raise" THEN Raise(outcome.exc, outcome.msg)
    ELSE IF outcome.status >= HttpErrorFloor THEN Raise("ClientResponseError", outcome.msg)
    ELSE IF outcome.body.kind = "raise" THEN Raise(outcome.body.exc, outcome.body.msg)
    ELSE Return(PyDict([result |-> outcome.body.value]))

\* body of the try block: session.post, raise_for_status, response.json
TryPost(outcome) ==
    IF outcome.kind = "raise" THEN Raise(outcome.exc, outcome.msg)
    ELSE IF outcome.status >= HttpErrorFloor THEN Raise("ClientResponseError", outcome.msg)
    ELSE IF outcome.body.kind = "raise" THEN Raise(outcome.body.exc, outcome.body.msg)
    ELSE Return(outcome.body.value)

\* only aiohttp.ClientError is caught
ExceptClientErrorOnly(done) ==
    IF done.how = "return" THEN done
    ELSE IF done.exc \in ClientErrors THEN Return(PyDict([error |-> PyStr(StrCommFailed \o done.msg)]))
    ELSE done

\* the two except clauses
\* "MCP communication failed: " and "Unexpected error: " before str(e)
Except(done) ==
    IF done.how = "return" THEN done
    ELSE IF done.exc \in ClientErrors THEN Return(PyDict([error |-> PyStr(StrCommFailed \o done.msg)]))
    ELSE Return(PyDict([error |-> PyStr(<<"U", "n", "e", "x", "p", "e", "c", "t", "e", "d", " ", "e", "r", "r", "o", "r", ":", " ">> \o done.msg)]))

\* call_mcp_tool from the answer of the remote server on
call_mcp_tool_resume(outcome) == Except(TryPost(outcome))

\* the id is passed on unvalidated
ValidCalendarUnchecked(self, calendar_id) == calendar_id

\* the substitution is written into the mapping instead of the local
ClientAfterValidateStored(self, calendar_id) ==
    IF calendar_id \notin MappingValues(self)
    THEN [self EXCEPT !.calendar_mappings = [@ EXCEPT !["default"] = calendar_id]]
    ELSE self

\* self after the "Validate calendar ID" block, which assigns the local calendar_id only
ClientAfterValidate(self, calendar_id) == self

\* the default calendar is substituted for every id
ValidCalendarAlwaysDefault(self, calendar_id) == self.calendar_mappings["default"]

\* calendar_id after the "Validate calendar ID" block
ValidCalendar(self, calendar_id) ==
    IF calendar_id \notin MappingValues(self)
    THEN self.calendar_mappings["default"]
    ELSE calendar_id

ScheduleArguments(self, name, email, phone, notes, calendar_id, start_time) ==
    [name        |-> name,
     email       |-> email,
     phone       |-> phone,
     notes       |-> notes,
     calendar_id |-> ValidCalendar(self, calendar_id),
     start_time  |-> start_time]

----------------------------------------------------------------------------
(* CustomerInfoExtractor *)

RoleLabel(msg) == IF msg.role = "user" THEN StrCustomer ELSE StrAssistant

generate_conversation_summary(messages, max_length) ==
    IF messages = <<>> THEN StrNoData
    ELSE
    LET recent_messages ==
            IF Len(messages) > SummaryWindow THEN LastN(messages, SummaryWindow) ELSE messages
        summary_parts ==
            [i \in 1..Len(recent_messages) |->
                RoleLabel(recent_messages[i]) \o <<":", " ">>
                    \o SliceTo(recent_messages[i].content, ContentLimit)]
        summary == Join(<<" ", "|", " ">>, summary_parts)
    IN  StrSummaryPrefix \o
            (IF Len(summary) > max_length
             THEN SliceTo(summary, max_length - EllipsisLen) \o <<".", ".", ".">>
             ELSE summary)

\* --- extract_contact_info: character classes of the three patterns ---

DigitSet == {"0", "1", "2", "3", "4", "5", "6", "7", "8", "9"}

LetterSet == {UpperChars[i] : i \in 1..Len(UpperChars)} \cup {LowerChars[i] : i \in 1..Len(LowerChars)}

\* \w on ASCII text
WordSet == LetterSet \cup DigitSet \cup {"_"}

\* \s on the white space the texts of the model use
SpaceSet == {" ", "\t", "\n"}

\* [-.\s]
PhoneSepSet == {"-", "."} \cup SpaceSet

\* [A-Za-z0-9._%+-]
EmailLocalSet == LetterSet \cup DigitSet \cup {".", "_", "%", "+", "-"}

\* [A-Za-z0-9.-]
EmailDomainSet == LetterSet \cup DigitSet \cup {".", "-"}

AreaLen == 3
ExchangeLen == 3
LineLen == 4
TldMin == 2
NameMin == 2
NameMax == 30

NoMatch == [ok |-> FALSE, from |-> 0, to |-> 0, groups |-> <<>>]

\* \b after the first i characters of s
WordBoundary(s, i) ==
    LET W(j) == j >= 1 /\ j <= Len(s) /\ s[j] \in WordSet
    IN  W(i) # W(i + 1)

\* the longest run of characters of class that follows the first p characters of s
RunLen(s, p, class) ==
    CHOOSE n \in 0..(Len(s) - p) :
        /\ \A i \in 1..n : s[p + i] \in class
        /\ p + n = Len(s) \/ s[p + n + 1] \notin class

\* a pattern element: n characters of class, captured as a group or not
Item(n, class, capture) == [n |-> n, class |-> class, capture |-> capture]

Optional(taken, class) == IF taken THEN <<Item(1, class, FALSE)>> ELSE <<>>

RECURSIVE MatchItems(_, _, _, _)
\* the items in turn from the first pos characters of s on
MatchItems(s, pos, items, groups) ==
    IF items = <<>> THEN [ok |-> TRUE, from |-> 0, to |-> pos, groups |-> groups]
    ELSE LET it == Head(items)
         IN  IF /\ pos + it.n <= Len(s)
                /\ \A i \in 1..it.n : s[pos + i] \in it.class
             THEN MatchItems(s, pos + it.n, Tail(items),
                             IF it.capture THEN Append(groups, SubSeq(s, pos + 1, pos + it.n))
                             ELSE groups)
             ELSE NoMatch

\* --- phone_pattern ---

\* which optional elements a way through the pattern takes, in the order the
\* pattern meets them: the group (?:\+?1[-.\s]?), its \+ and its separator,
\* \(, \), and the two separators; k counts down from the way that takes all
PhoneWays == 0..127

PhoneWay(k) ==
    [prefix |-> (k \div 64) % 2 = 1, plus |-> (k \div 32) % 2 = 1, prefix_sep |-> (k \div 16) % 2 = 1,
     open |-> (k \div 8) % 2 = 1, close |-> (k \div 4) % 2 = 1,
     sep1 |-> (k \div 2) % 2 = 1, sep2 |-> k % 2 = 1]

PhoneItems(w) ==
    (IF w.prefix
     THEN Optional(w.plus, {"+"}) \o <<Item(1, {"1"}, FALSE)>> \o Optional(w.prefix_sep, PhoneSepSet)
     ELSE <<>>)
    \o Optional(w.open, {"("}) \o <<Item(AreaLen, DigitSet, TRUE)>> \o Optional(w.close, {")"})
    \o Optional(w.sep1, PhoneSepSet) \o <<Item(ExchangeLen, DigitSet, TRUE)>>
    \o Optional(w.sep2, PhoneSepSet) \o <<Item(LineLen, DigitSet, TRUE)>>

PhoneWayMatches(s, p, k) ==
    LET w == PhoneWay(k)
        m == MatchItems(s, p, PhoneItems(w), <<>>)
    IN  /\ w.prefix \/ (~w.plus /\ ~w.prefix_sep)
        /\ WordBoundary(s, p)
        /\ m.ok
        /\ WordBoundary(s, m.to)

\* re.search(phone_pattern, s): the leftmost start, and there the way a greedy
\* matcher finds first
phone_search(s) ==
    LET starts == {p \in 0..Len(s) : \E k \in PhoneWays : PhoneWayMatches(s, p, k)}
    IN  IF starts = {} THEN NoMatch
        ELSE LET p == CHOOSE q \in starts : \A r \in starts : q <= r
                 ways == {k \in PhoneWays : PhoneWayMatches(s, p, k)}
                 k == CHOOSE j \in ways : \A i \in ways : i <= j
             IN  [MatchItems(s, p, PhoneItems(PhoneWay(k)), <<>>) EXCEPT !.from = p]

\* the ten digits without punctuation
FormatPhoneDigitsOnly(phone) == phone

\* f"({phone[:3]}) {phone[3:6]}-{phone[6:]}"
FormatPhone(phone) ==
    <<"(">> \o SubSeq(phone, 1, AreaLen) \o <<")", " ">>
        \o SubSeq(phone, AreaLen + 1, AreaLen + ExchangeLen) \o <<"-">>
        \o SubSeq(phone, AreaLen + ExchangeLen + 1, Len(phone))

extract_phone(conversation_text) ==
    LET phone_match == phone_search(conversation_text)
    IN  IF phone_match.ok
        THEN PyStr(FormatPhone(Join(<<>>, phone_match.groups)))
        ELSE PyNone

\* --- email_pattern ---

\* the ends of the matches that start after the first p characters of s:
\* x[1] characters of domain, the dot, x[2] characters of top-level domain
EmailEnds(s, p) ==
    LET local == RunLen(s, p, EmailLocalSet)
        q == p + local + 1
    IN  IF ~(WordBoundary(s, p) /\ local >= 1 /\ q <= Len(s) /\ s[q] = "@") THEN {}
        ELSE {x \in (1..RunLen(s, q, EmailDomainSet)) \X (TldMin..Len(s)) :
                /\ q + x[1] + 1 <= Len(s)
                /\ s[q + x[1] + 1] = "."
                /\ x[2] <= RunLen(s, q + x[1] + 1, LetterSet \cup {"|"})
                /\ WordBoundary(s, q + x[1] + 1 + x[2])}

\* re.search(email_pattern, s): leftmost start, longest domain, longest
\* top-level domain
email_search(s) ==
    LET starts == {p \in 0..Len(s) : EmailEnds(s, p) # {}}
    IN  IF starts = {} THEN NoMatch
        ELSE LET p == CHOOSE q \in starts : \A r \in starts : q <= r
                 ends == EmailEnds(s, p)
                 e == CHOOSE x \in ends : \A y \in ends :
                        y[1] < x[1] \/ (y[1] = x[1] /\ y[2] <= x[2])
                 to == p + RunLen(s, p, EmailLocalSet) + 1 + e[1] + 1 + e[2]
             IN  [ok |-> TRUE, from |-> p, to |-> to, groups |-> <<SubSeq(s, p + 1, to)>>]

\* email_match.group(0) if email_match else None
extract_email(conversation_text) ==
    LET email_match == email_search(conversation_text)
    IN  IF email_match.ok THEN PyStr(email_match.groups[1]) ELSE PyNone

\* --- name_patterns ---

StrAnd ==
    <<"a", "n", "d">>

\* the literal each pattern starts with; the rest of the four patterns is the same
\* "my name is ", "i'm ", "this is ", "call me "
name_patterns == <<<<"m", "y", " ", "n", "a", "m", "e", " ", "i", "s", " ">>, <<"i", "'", "m", " ">>, <<"t", "h", "i", "s", " ", "i", "s", " ">>, <<"c", "a", "l", "l", " ", "m", "e", " ">>>>

\* (?:\s+and|,|\.|\s*$) after the first e characters of s
NameEnds(s, e) ==
    \/ \E k \in 1..(Len(s) - e) :
        /\ \A i \in 1..k : s[e + i] \in SpaceSet
        /\ e + k + Len(StrAnd) <= Len(s)
        /\ SubSeq(s, e + k + 1, e + k + Len(StrAnd)) = StrAnd
    \/ e < Len(s) /\ s[e + 1] \in {",", "."}
    \/ \A i \in (e + 1)..Len(s) : s[i] \in SpaceSet

\* the lengths n of ([A-Za-z\s]{2,30}?) with which the pattern matches after
\* the first p characters of s
NameLengths(s, p, intro) ==
    IF ~(p + Len(intro) <= Len(s) /\ SubSeq(s, p + 1, p + Len(intro)) = intro) THEN {}
    ELSE {n \in NameMin..NameMax :
            /\ p + Len(intro) + n <= Len(s)
            /\ \A i \in 1..n : s[p + Len(intro) + i] \in LetterSet \cup SpaceSet
            /\ NameEnds(s, p + Len(intro) + n)}

\* re.search(pattern, s): leftmost start, shortest group
name_search(intro, s) ==
    LET starts == {p \in 0..Len(s) : NameLengths(s, p, intro) # {}}
    IN  IF starts = {} THEN NoMatch
        ELSE LET p == CHOOSE q \in starts : \A r \in starts : q <= r
                 lens == NameLengths(s, p, intro)
                 n == CHOOSE x \in lens : \A y \in lens : x <= y
             IN  [ok |-> TRUE, from |-> p, to |-> p + Len(intro) + n,
                  groups |-> <<SubSeq(s, p + Len(intro) + 1, p + Len(intro) + n)>>]

UpperChar(c) ==
    IF \E i \in 1..Len(LowerChars) : LowerChars[i] = c
    THEN UpperChars[CHOOSE i \in 1..Len(LowerChars) : LowerChars[i] = c]
    ELSE c

\* s.strip()
Strip(s) ==
    LET inner == {i \in 1..Len(s) : s[i] \notin SpaceSet}
    IN  IF inner = {} THEN <<>>
        ELSE SubSeq(s, CHOOSE i \in inner : \A j \in inner : i <= j,
                       CHOOSE i \in inner : \A j \in inner : j <= i)

\* s.title()
Title(s) ==
    [i \in 1..Len(s) |->
        IF i = 1 \/ s[i - 1] \notin LetterSet THEN UpperChar(s[i]) ELSE LowerChar(s[i])]

RECURSIVE NameLoop(_, _)
\* for pattern in name_patterns: ... break
NameLoop(patterns, text) ==
    IF patterns = <<>> THEN PyNone
    ELSE LET name_match == name_search(Head(patterns), text)
         IN  IF name_match.ok
             THEN PyStr(Title(Strip(name_match.groups[1])))
             ELSE NameLoop(Tail(patterns), text)

\* the pattern whose match starts leftmost in the text decides
extract_name_leftmost(text) ==
    LET found == {i \in 1..Len(name_patterns) : name_search(name_patterns[i], text).ok}
    IN  IF found = {} THEN PyNone
        ELSE LET i == CHOOSE x \in found : \A y \in found :
                        name_search(name_patterns[x], text).from
                            <= name_search(name_patterns[y], text).from
             IN  PyStr(Title(Strip(name_search(name_patterns[i], text).groups[1])))

\* the loop over name_patterns on conversation_text.lower()
extract_name(text) == NameLoop(name_patterns, text)

extract_contact_info(conversation_text) ==
    [name |-> extract_name(Lower(conversation_text)),
     email |-> extract_email(conversation_text),
     phone |-> extract_phone(conversation_text)]

----------------------------------------------------------------------------
(* GHLAppointmentScheduler *)

\* a validation that forgets the phone
MissingInfoNoPhone(customer_name, customer_email, customer_phone) ==
    customer_name = "" \/ customer_email = ""

\* not all([customer_name, customer_email, customer_phone])
MissingInfo(customer_name, customer_email, customer_phone) ==
    customer_name = "" \/ customer_email = "" \/ customer_phone = ""

MissingInfoFailure == [success |-> FALSE, error |-> PyStr(StrMissingInfo)]

\* only the messages of the summary window are joined
conversation_text_recent(conversation_messages) ==
    Join(StrSpace, [i \in 1..Len(LastN(conversation_messages, SummaryWindow)) |->
                        LastN(conversation_messages, SummaryWindow)[i].content])

\* " ".join([msg.get("content", "") for msg in conversation_messages])
conversation_text(conversation_messages) ==
    Join(StrSpace, [i \in 1..Len(conversation_messages) |-> conversation_messages[i].content])

\* "error" in result
HasError(result) ==
    CASE result.type = "dict" -> Return("error" \in DOMAIN result.fields)
      [] result.type = "list" -> Return(\E i \in 1..Len(result.items) : result.items[i] = PyStr(StrError))
      [] result.type = "str" -> Return(Contains(result.s, StrError))
      [] OTHER -> Raise("TypeError", <<>>)

\* result["error"]
ErrorOf(result) ==
    IF result.type = "dict" THEN Return(result.fields["error"]) ELSE Raise("TypeError", <<>>)

\* schedule_from_conversation from the return of create_contact_and_schedule on
schedule_resume(result, appointment_time, calendar_id) ==
    LET has == HasError(result)
    IN  IF has.how = "raise" THEN has
        ELSE IF has.value
        THEN LET err == ErrorOf(result)
             IN  IF err.how = "raise" THEN err
                 ELSE Return([success |-> FALSE, error |-> err.value])
        ELSE Return([success        |-> TRUE,
                     result         |-> result,
                     appointment_time |-> appointment_time,
                     calendar_type  |-> get_calendar_type(calendar_id),
                     calendar_id    |-> calendar_id])

----------------------------------------------------------------------------
(* Inputs: texts, transcripts, customers, clock readings, remote answers *)

TxtAppraised ==
    <<"I", " ", "n", "e", "e", "d", " ", "m", "y", " ", "j", "e", "w", "e", "l", "r", "y", " ", "a", "p", "p", "r", "a", "i", "s", "e", "d">>
TxtCustomDesign ==
    <<"C", "u", "s", "t", "o", "m", " ", "d", "e", "s", "i", "g", "n", " ", "c", "o", "n", "s", "u", "l", "t", "a", "t", "i", "o", "n">>
TxtAlsoAppraisal ==
    <<"W", "e", " ", "a", "l", "s", "o", " ", "d", "o", " ", "a", "p", "p", "r", "a", "i", "s", "a", "l">>
TxtHello ==
    <<"h", "e", "l", "l", "o", " ", "t", "h", "e", "r", "e">>
TxtDeal ==
    <<"a", "n", "y", " ", "d", "e", "a", "l", " ", "t", "o", "d", "a", "y">>
TxtOk ==
    <<"o", "k">>

User(content) == [role |-> "user", content |-> content]
Assistant(content) == [role |-> "assistant", content |-> content]

TrAppraised == <<User(TxtAppraised)>>
TrHello == <<User(TxtHello), Assistant(TxtOk)>>

Customers == [name : {"", "Ann Lee"}, email : {"", "ann@example.com"}, phone : {"", "(555) 123-4567"}]

TxtWhenever ==
    <<"w", "h", "e", "n", "e", "v", "e", "r">>

AppointmentTypes == {"consultation", "repair"}

\* ids handed to create_contact_and_schedule
CalendarIds == MappingValues(NewClient) \cup {"bogus-calendar", ""}

\* what session.post and response.json can do
\* connection refused, timeout, status 500, a body that is not JSON, a body
\* of another content type, and the bodies above with status 200
Outcomes ==
    {[kind |-> "raise", exc |-> "ClientConnectorError", msg |-> <<"C", "a", "n", "n", "o", "t", " ", "c", "o", "n", "n", "e", "c", "t", " ", "t", "o", " ", "h", "o", "s", "t">>],
     [kind |-> "raise", exc |-> "ServerTimeoutError", msg |-> <<"C", "o", "n", "n", "e", "c", "t", "i", "o", "n", " ", "t", "i", "m", "e", "o", "u", "t">>],
     [kind |-> "raise", exc |-> "TimeoutError", msg |-> <<>>],
     [kind |-> "http", status |-> 500, msg |-> <<"5", "0", "0", ",", " ", "m", "e", "s", "s", "a", "g", "e", "=", "'", "I", "n", "t", "e", "r", "n", "a", "l", " ", "S", "e", "r", "v", "e", "r", " ", "E", "r", "r", "o", "r", "'">>, body |-> PyNone],
     [kind |-> "http", status |-> 200, msg |-> <<>>,
      body |-> [kind |-> "raise", exc |-> "JSONDecodeError", msg |-> <<"E", "x", "p", "e", "c", "t", "i", "n", "g", " ", "v", "a", "l", "u", "e", ":", " ", "l", "i", "n", "e", " ", "1", " ", "c", "o", "l", "u", "m", "n", " ", "1", " ", "(", "c", "h", "a", "r", " ", "0", ")">>]],
     [kind |-> "http", status |-> 200, msg |-> <<>>,
      body |-> [kind |-> "raise", exc |-> "ContentTypeError", msg |-> <<"0", ",", " ", "m", "e", "s", "s", "a", "g", "e", "=", "'", "A", "t", "t", "e", "m", "p", "t", " ", "t", "o", " ", "d", "e", "c", "o", "d", "e", " ", "J", "S", "O", "N", " ", "w", "i", "t", "h", " ", "u", "n", "e", "x", "p", "e", "c", "t", "e", "d", " ", "m", "i", "m", "e", "t", "y", "p", "e", ":", " ", "t", "e", "x", "t", "/", "h", "t", "m", "l", "'">>]]}
    \cup {[kind |-> "http", status |-> 200, msg |-> <<>>, body |-> [kind |-> "value", value |-> b]] :
            b \in {PyDict([contact_id |-> PyStr(<<"c", "1">>)]), PyDict([error |-> PyStr(<<"C", "o", "n", "t", "a", "c", "t", " ", "n", "o", "t", " ", "f", "o", "u", "n", "d">>)]), PyDict([error |-> PyInt(404)]), PyNone, PyList(<<PyStr(StrError)>>), PyStr(<<"o", "k">>), PyStr(<<"n", "o", " ", "e", "r", "r", "o", "r">>)}}

\* --- texts given to extract_contact_info ---

\* the writing styles: leading 1 or +1, parentheses, separators
PhoneStyles ==
    {st \in [lead : {<<>>, <<"1">>, <<"+", "1">>}, lead_sep : {<<>>, <<" ">>},
             paren : BOOLEAN,
             sep1 : {<<>>, <<"-">>, <<".">>, <<" ">>}, sep2 : {<<>>, <<"-">>, <<".">>, <<" ">>}] :
        st.lead = <<>> => st.lead_sep = <<>>}

RenderPhone(st, num) ==
    st.lead \o st.lead_sep
        \o (IF st.paren THEN <<"(">> ELSE <<>>) \o num[1] \o (IF st.paren THEN <<")">> ELSE <<>>)
        \o st.sep1 \o num[2] \o st.sep2 \o num[3]

TxtSecondPhone ==
    <<" ", "o", "r", " ", "4", "4", "4", "-", "1", "2", "3", "-", "9", "8", "7", "6">>

\* "My name is ", "I'm ", "This is ", "Call me "
NameIntros ==
    <<<<"M", "y", " ", "n", "a", "m", "e", " ", "i", "s", " ">>, <<"I", "'", "m", " ">>, <<"T", "h", "i", "s", " ", "i", "s", " ">>, <<"C", "a", "l", "l", " ", "m", "e", " ">>>>

TxtBob ==
    <<"b", "o", "b">>
TxtAlice ==
    <<"a", "l", "i", "c", "e">>

\* with the empty text, a greeting and "Hi, my name is John Doe and my email is
\* john.doe@example.com. Call me at (555) 123-4567."
ExtractTexts == {b \o RenderPhone(st, <<<<"5", "5", "5">>, <<"1", "2", "3">>, <<"4", "5", "6", "7">>>>) \o a : b \in {<<>>, <<"c", "a", "l", "l", " ">>, <<"t", "e", "l">>, <<"_">>}, st \in PhoneStyles, a \in {<<>>, <<"x", "1", "2">>, <<" ", "o", "k">>, TxtSecondPhone}} \cup {NameIntros[i] \o n \o a : i \in 1..Len(NameIntros), n \in {<<"b", "o", "b">>, <<"J", "o", "h", "n", " ", "D", "o", "e">>, <<"a">>, <<"a", " ">>, <<" ", " ">>, <<"x">>, <<"m", "a", "r", "y", "-", "j", "a", "n", "e">>}, a \in {<<>>, <<".">>, <<",">>, <<"!">>, <<" ", "a", "n", "d", " ", "t", "h", "a", "n", "k", "s">>}} \cup {NameIntros[i] \o TxtBob \o <<",", " ">> \o NameIntros[j] \o TxtAlice \o <<".">> : i \in 1..Len(NameIntros), j \in 1..Len(NameIntros)} \cup {b \o e \o a : b \in {<<>>, <<"m", "a", "i", "l", " ">>, <<"<">>}, e \in {<<"j", "o", "h", "n", ".", "d", "o", "e", "@", "e", "x", "a", "m", "p", "l", "e", ".", "c", "o", "m">>, <<"J", "o", "h", "n", ".", "D", "o", "e", "@", "E", "x", "a", "m", "p", "l", "e", ".", "C", "O", "M">>, <<"a", "@", "b", ".", "c", "o">>}, a \in {<<>>, <<" ", "o", "k">>, <<".", " ", "T", "h", "a", "n", "k", "s">>, <<">">>, <<"|", "A", "n", "n", "a">>, <<" ", "o", "r", " ", "c", "@", "d", ".", "o", "r", "g">>}} \cup {<<>>, TxtHello, <<"H", "i", ",", " ", "m", "y", " ", "n", "a", "m", "e", " ", "i", "s", " ", "J", "o", "h", "n", " ", "D", "o", "e", " ", "a", "n", "d", " ", "m", "y", " ", "e", "m", "a", "i", "l", " ", "i", "s", " ", "j", "o", "h", "n", ".", "d", "o", "e", "@", "e", "x", "a", "m", "p", "l", "e", ".", "c", "o", "m", ".", " ", "C", "a", "l", "l", " ", "m", "e", " ", "a", "t", " ", "(", "5", "5", "5", ")", " ", "1", "2", "3", "-", "4", "5", "6", "7", ".">>}

----------------------------------------------------------------------------
(* Callers *)

Tasks == {1, 2}

NotCalled == "not called"

IdleTask ==
    [pc       |-> "idle",
     op       |-> "none",
     args     |-> PyNone,
     now      |-> PyNone,
     locals   |-> PyNone,
     requests |-> <<>>,
     outcome  |-> PyNone,
     result   |-> PyNone,
     ret      |-> PyNone]

\* the request is posted twice
call_mcp_tool_twice(self, tool_name, arguments) ==
    IF ~ToolAvailable(self, tool_name)
    THEN [requests |-> <<>>, done |-> Return(ToolNotAvailable(self, tool_name))]
    ELSE [requests |-> <<Post(self, tool_name, arguments), Post(self, tool_name, arguments)>>,
          done |-> PyNone]

\* call_mcp_tool up to its suspension: the requests it sends and, if it is already over, how
call_mcp_tool(self, tool_name, arguments) ==
    IF ~ToolAvailable(self, tool_name)
    THEN [requests |-> <<>>, done |-> Return(ToolNotAvailable(self, tool_name))]
    ELSE [requests |-> <<Post(self, tool_name, arguments)>>, done |-> PyNone]

create_contact_and_schedule(self, name, email, phone, notes, calendar_id, start_time) ==
    call_mcp_tool(self, ToolCreateContactSchedule,
                  ScheduleArguments(self, name, email, phone, notes, calendar_id, start_time))

\* the locals of schedule_from_conversation at the call of create_contact_and_schedule
ScheduleLocals(self, conversation_messages, preferred_time, now) ==
    [conversation_summary |-> generate_conversation_summary(conversation_messages, DefaultMaxLength),
     calendar_id          |-> select_calendar(self, conversation_text(conversation_messages)),
     appointment_time     |-> suggest_appointment_time(preferred_time, now)]

\* the state of a caller after the synchronous start of a client call
Started(op, args, now, locals, call) ==
    [pc       |-> IF call.done = PyNone THEN "awaiting" ELSE "returned",
     op       |-> op,
     args     |-> args,
     now      |-> now,
     locals   |-> locals,
     requests |-> call.requests,
     outcome  |-> PyNone,
     result   |-> PyNone,
     ret      |-> call.done]

\* the appointment type decides the calendar of a repair
schedule_from_conversation_by_type(t, conversation_messages, customer, preferred_time, appointment_type, now) ==
    /\ task[t].pc = "idle"
    /\ LET args == [conversation_messages |-> conversation_messages,
                    customer_name         |-> customer.name,
                    customer_email        |-> customer.email,
                    customer_phone        |-> customer.phone,
                    preferred_time        |-> preferred_time,
                    appointment_type      |-> appointment_type]
       IN  IF MissingInfo(customer.name, customer.email, customer.phone)
           THEN task' = [task EXCEPT ![t] =
                    [IdleTask EXCEPT !.pc = "returned", !.op = "schedule_from_conversation",
                                     !.args = args, !.ret = Return(MissingInfoFailure)]]
           ELSE LET locals == ScheduleLocals(config, conversation_messages, preferred_time, now)
                    call == create_contact_and_schedule(config, customer.name, customer.email,
                                customer.phone, locals.conversation_summary,
                                (IF appointment_type = "repair"
                                 THEN config.calendar_mappings["appraisals"]
                                 ELSE locals.calendar_id),
                                locals.appointment_time)
                IN  task' = [task EXCEPT ![t] =
                        Started("schedule_from_conversation", args,
                                IF Truthy(preferred_time) THEN PyNone ELSE now, locals, call)]
    /\ config' = IF MissingInfo(customer.name, customer.email, customer.phone)
                 THEN config
                 ELSE ClientAfterValidate(config,
                        select_calendar(config, conversation_text(conversation_messages)))
    /\ UNCHANGED calls

schedule_from_conversation(t, conversation_messages, customer, preferred_time, appointment_type, now) ==
    /\ task[t].pc = "idle"
    /\ LET args == [conversation_messages |-> conversation_messages,
                    customer_name         |-> customer.name,
                    customer_email        |-> customer.email,
                    customer_phone        |-> customer.phone,
                    preferred_time        |-> preferred_time,
                    appointment_type      |-> appointment_type]
       IN  IF MissingInfo(customer.name, customer.email, customer.phone)
           THEN task' = [task EXCEPT ![t] =
                    [IdleTask EXCEPT !.pc = "returned", !.op = "schedule_from_conversation",
                                     !.args = args, !.ret = Return(MissingInfoFailure)]]
           ELSE LET locals == ScheduleLocals(config, conversation_messages, preferred_time, now)
                    call == create_contact_and_schedule(config, customer.name, customer.email,
                                customer.phone, locals.conversation_summary,
                                locals.calendar_id, locals.appointment_time)
                IN  task' = [task EXCEPT ![t] =
                        Started("schedule_from_conversation", args,
                                IF Truthy(preferred_time) THEN PyNone ELSE now, locals, call)]
    /\ config' = IF MissingInfo(customer.name, customer.email, customer.phone)
                 THEN config
                 ELSE ClientAfterValidate(config,
                        select_calendar(config, conversation_text(conversation_messages)))
    /\ UNCHANGED calls

CreateContactAndSchedule(t, customer, notes, calendar_id, start_time) ==
    /\ task[t].pc = "idle"
    /\ task' = [task EXCEPT ![t] =
            Started("create_contact_and_schedule",
                    [name |-> customer.name, email |-> customer.email, phone |-> customer.phone,
                     notes |-> notes, calendar_id |-> calendar_id, start_time |-> start_time],
                    PyNone, PyNone,
                    create_contact_and_schedule(config, customer.name, customer.email,
                        customer.phone, notes, calendar_id, start_time))]
    /\ config' = ClientAfterValidate(config, calendar_id)
    /\ UNCHANGED calls

CallMcpTool(t, tool_name, arguments) ==
    /\ task[t].pc = "idle"
    /\ task' = [task EXCEPT ![t] =
            Started("call_mcp_tool", [tool_name |-> tool_name, arguments |-> arguments],
                    PyNone, PyNone, call_mcp_tool(config, tool_name, arguments))]
    /\ UNCHANGED <<config, calls>>

\* the locals are kept on the shared scheduler object: a call started meanwhile overwrites them
FrameOnScheduler(t) ==
    IF \E u \in Tasks \ {t} : task[u].pc = "awaiting"
    THEN task[CHOOSE u \in Tasks \ {t} : task[u].pc = "awaiting"].locals
    ELSE task[t].locals

\* the local variables a suspended coroutine finds when it is resumed: those of its own frame
Frame(t) == task[t].locals

\* the remote server answers (or fails to): the suspended coroutine runs to its end
Response(t, outcome) ==
    /\ task[t].pc = "awaiting"
    /\ LET called == call_mcp_tool_resume(outcome)
           done == IF task[t].op = "schedule_from_conversation" /\ called.how = "return"
                   THEN schedule_resume(called.value, Frame(t).appointment_time,
                                        Frame(t).calendar_id)
                   ELSE called
       IN  task' = [task EXCEPT ![t].pc = IF done.how = "return" THEN "returned" ELSE "raised",
                                ![t].outcome = outcome,
                                ![t].result = IF called.how = "return" THEN called.value ELSE PyNone,
                                ![t].ret = done]
    /\ UNCHANGED <<config, calls>>

\* the caller has taken the outcome of its call and may call again
Finish(t) ==
    /\ task[t].pc \in {"returned", "raised"}
    /\ task' = [task EXCEPT ![t] = IdleTask]
    /\ UNCHANGED <<config, calls>>

NoSummaryCall == [messages |-> <<>>, max_length |-> DefaultMaxLength, done |-> FALSE, value |-> <<>>]

NoExtractCall == [text |-> <<>>, done |-> FALSE, value |-> PyNone]

\* no helper has been called: the labels looked up so far, the category found
\* by the scan and the dictionary of get_available_calendars
NoHelperCalls == [lookups |-> <<>>, category |-> NotCalled, available |-> PyNone]

NoSearchCall == [query |-> <<>>, answer |-> PyNone, done |-> FALSE, value |-> PyNone]

\* no request of the caller is being served
NoRequest == [endpoint |-> "none", req |-> PyNone, status |-> 0, content |-> PyNone]

\* a stand-alone call of generate_conversation_summary
GenerateConversationSummary ==
    /\ ~summary_call.done
    /\ summary_call' = [summary_call EXCEPT
            !.done = TRUE,
            !.value = generate_conversation_summary(summary_call.messages, summary_call.max_length)]
    /\ UNCHANGED <<config, task, context, calendar, extract_call,
                   helper, search_call, ghl_scheduler, memory, http>>

\* a stand-alone call of select_calendar
SelectCalendar ==
    /\ calendar = NotCalled
    /\ calendar' = select_calendar(config, context)
    /\ UNCHANGED <<config, task, context, summary_call, extract_call,
                   helper, search_call, ghl_scheduler, memory, http>>

\* a stand-alone call of CustomerInfoExtractor.extract_contact_info
ExtractContactInfo ==
    /\ ~extract_call.done
    /\ extract_call' = [extract_call EXCEPT
            !.done = TRUE,
            !.value = extract_contact_info(extract_call.text)]
    /\ UNCHANGED <<config, task, context, calendar, summary_call,
                   helper, search_call, ghl_scheduler, memory, http>>

\* a stand-alone call of get_calendar_type
GetCalendarType(calendar_id) ==
    /\ Len(helper.lookups) < MaxLookups
    /\ helper' = [helper EXCEPT !.lookups =
            Append(@, [calendar_id |-> calendar_id, label |-> get_calendar_type(calendar_id)])]
    /\ UNCHANGED <<config, task, context, calendar, summary_call, extract_call,
                   search_call, ghl_scheduler, memory, http>>

\* a stand-alone call of get_available_calendars
GetAvailableCalendars ==
    /\ helper.available = PyNone
    /\ helper' = [helper EXCEPT !.available = PyDict(get_available_calendars(config))]
    /\ UNCHANGED <<config, task, context, calendar, summary_call, extract_call,
                   search_call, ghl_scheduler, memory, http>>

\* the loop of test_calendar_selection over the calendar select_calendar returned
TestCalendarSelection ==
    /\ calendar # NotCalled
    /\ helper.category = NotCalled
    /\ helper' = [helper EXCEPT !.category = calendar_type_of(config, calendar)]
    /\ UNCHANGED <<config, task, context, calendar, summary_call, extract_call,
                   search_call, ghl_scheduler, memory, http>>

----------------------------------------------------------------------------
(* Specifications *)

Init ==
    /\ config = NewClient
    /\ task = [t \in Tasks |-> IdleTask]
    /\ context = <<>>
    /\ calendar = NotCalled
    /\ summary_call = NoSummaryCall
    /\ extract_call = NoExtractCall
    /\ helper = NoHelperCalls
    /\ search_call = NoSearchCall
    /\ ghl_scheduler = TRUE
    /\ memory = <<>>
    /\ http = [t \in Tasks |-> NoRequest]

\* one caller at a time, every operation of the client and the scheduler
Next ==
    \/ \E msgs \in {<<>>, TrAppraised, <<User(TxtCustomDesign), Assistant(TxtAlsoAppraisal)>>, TrHello, <<User(TxtDeal), Assistant(TxtOk), User(TxtHello), Assistant(TxtOk), User(TxtHello), Assistant(TxtOk), User(TxtHello)>>}, c \in Customers, p \in {PyNone, PyStr(<<>>), PyStr(TxtPreferred), PyStr(TxtWhenever)},
          a \in AppointmentTypes, now \in [day : 0..(DaysPerWeek - 1), hour : {9, 16}] :
            schedule_from_conversation(1, msgs, c, p, a, now) /\ UNCHANGED http
    \/ \E c \in Customers, id \in CalendarIds :
            CreateContactAndSchedule(1, c, StrNoData, id, PyStr(TxtPreferred)) /\ UNCHANGED http
    \/ \E tool \in {available_tools[i] : i \in 1..Len(available_tools)} \cup {ToolDeleteEverything, <<>>}, arguments \in {[contact_id |-> "c1"], [webhook_id |-> "w1", data |-> "d"]} :
            CallMcpTool(1, tool, arguments) /\ UNCHANGED http
    \/ \E o \in Outcomes : Response(1, o) /\ UNCHANGED http
    \/ Finish(1) /\ UNCHANGED http
    \/ GetAvailableCalendars

Spec == Init /\ [][Next]_vars

\* select_calendar on every context
InitSelect ==
    /\ config = NewClient
    /\ task = [t \in Tasks |-> IdleTask]
    /\ context \in {Join(StrSpace, ws) : ws \in UNION {[1..n -> {<<"A", "P", "P", "R", "A", "I", "S", "E">>, <<"w", "o", "r", "t", "h">>, <<"C", "u", "s", "t", "o", "m", "e", "r">>, <<"D", "e", "s", "i", "g", "n">>, <<"i", "d", "e", "a", "l">>, <<"S", "p", "e", "c", "i", "a", "l">>, <<"o", "f", "f", "e", "r">>, <<"r", "i", "n", "g">>, <<"p", "r", "o", "m", "o", "t", "i", "o", "n">>}] : n \in 0..MaxWords}} \cup {TxtAppraised, TxtCustomDesign, TxtAlsoAppraisal, TxtHello, TxtDeal}
    /\ calendar = NotCalled
    /\ summary_call = NoSummaryCall
    /\ extract_call = NoExtractCall
    /\ helper = NoHelperCalls
    /\ search_call = NoSearchCall
    /\ ghl_scheduler = TRUE
    /\ memory = <<>>
    /\ http = [t \in Tasks |-> NoRequest]

NextSelect ==
    \/ SelectCalendar
    \/ TestCalendarSelection
    \/ \E id \in CalendarIds : GetCalendarType(id)

SpecSelect == InitSelect /\ [][NextSelect]_vars

NextConc ==
    \E t \in Tasks :
        \/ \E msgs \in {TrAppraised, TrHello}, c \in {[name |-> "Ann Lee", email |-> "ann@example.com", phone |-> "(555) 123-4567"], [name |-> "Bob Ray", email |-> "bob@example.com", phone |-> "(555) 765-4321"], [name |-> "Cy Poe", email |-> "", phone |-> "(555) 000-1111"]}, p \in {PyNone, PyStr(TxtPreferred)},
              a \in AppointmentTypes, now \in {[day |-> 1, hour |-> 9], [day |-> 4, hour |-> 16]} :
                schedule_from_conversation(t, msgs, c, p, a, now) /\ UNCHANGED http
        \/ \E o \in Outcomes : Response(t, o) /\ UNCHANGED http
        \/ Finish(t) /\ UNCHANGED http

SpecConc == Init /\ [][NextConc]_vars

\* generate_conversation_summary on transcripts of up to MaxMessages messages
Rep(c, n) == [i \in 1..n |-> c]

InitSummary ==
    /\ config = NewClient
    /\ task = [t \in Tasks |-> IdleTask]
    /\ context = <<>>
    /\ calendar = NotCalled
    /\ summary_call \in [messages : UNION {[1..n -> {User(TxtHello), Assistant(Rep("y", ContentLimit) \o Rep("z", 20)), [role |-> "system", content |-> Rep("x", ContentLimit)]}] : n \in 0..MaxMessages}, max_length : {2, DefaultMaxLength, 1000},
                          done : {FALSE}, value : {<<>>}]
    /\ extract_call = NoExtractCall
    /\ helper = NoHelperCalls
    /\ search_call = NoSearchCall
    /\ ghl_scheduler = TRUE
    /\ memory = <<>>
    /\ http = [t \in Tasks |-> NoRequest]

SpecSummary == InitSummary /\ [][GenerateConversationSummary]_vars

\* extract_contact_info on the texts of ExtractTexts
InitExtract ==
    /\ config = NewClient
    /\ task = [t \in Tasks |-> IdleTask]
    /\ context = <<>>
    /\ calendar = NotCalled
    /\ summary_call = NoSummaryCall
    /\ extract_call \in [text : ExtractTexts, done : {FALSE}, value : {PyNone}]
    /\ helper = NoHelperCalls
    /\ search_call = NoSearchCall
    /\ ghl_scheduler = TRUE
    /\ memory = <<>>
    /\ http = [t \in Tasks |-> NoRequest]

SpecExtract == InitExtract /\ [][ExtractContactInfo]_vars

----------------------------------------------------------------------------
(* app.py: the /chat, /clear_chat and /schedule_appointment endpoints *)

\* the caller's request to /schedule_appointment is suspended at the remote call
Pending(t) == http[t].endpoint = "schedule_appointment" /\ http[t].status = 0

appointment_indicators ==
    <<<<"a", "p", "p", "o", "i", "n", "t", "m", "e", "n", "t">>,
      <<"s", "c", "h", "e", "d", "u", "l", "e">>,
      <<"m", "e", "e", "t", "i", "n", "g">>,
      <<"v", "i", "s", "i", "t">>,
      <<"c", "o", "m", "e", " ", "i", "n">>,
      <<"b", "o", "o", "k">>,
      <<"r", "e", "s", "e", "r", "v", "e">>,
      <<"c", "o", "n", "s", "u", "l", "t", "a", "t", "i", "o", "n">>,
      <<"s", "e", "e", " ", "y", "o", "u">>,
      <<"m", "e", "e", "t">>>>

\* any(indicator in user_lower for indicator in appointment_indicators)
is_appointment_request(user_query) ==
    \E i \in 1..Len(appointment_indicators) :
        Contains(Lower(user_query), appointment_indicators[i])

\* the contact fields read from the query and the five latest messages of req.history;
\* an empty dictionary answers None to every get
appointment_context(user_query, history, extractor) ==
    IF is_appointment_request(user_query) /\ extractor
    THEN extract_contact_info(
            IF history = <<>> THEN user_query
            ELSE user_query \o StrSpace \o
                 Join(StrSpace, [i \in 1..Len(LastN(history, 5)) |-> LastN(history, 5)[i].content]))
    ELSE [name |-> PyNone, email |-> PyNone, phone |-> PyNone]

\* the sentence added to the reply of an appointment request; the fixed sentences are
\* written by their first words, without the gem that opens them
enhance_reply(reply, is_request, ctx, scheduler) ==
    LET missing_info == (IF Truthy(ctx.email) THEN <<>> ELSE <<<<"e", "m", "a", "i", "l", " ", "a", "d", "d", "r", "e", "s", "s">>>>)
                        \o (IF Truthy(ctx.phone) THEN <<>> ELSE <<<<"p", "h", "o", "n", "e", " ", "n", "u", "m", "b", "e", "r">>>>)
    IN  IF ~is_request THEN reply
        ELSE IF ~scheduler
        THEN reply \o <<"\n", "\n", "P", "e", "r", "f", "e", "c", "t", " ", "t", "i", "m", "i", "n", "g", "!">>
        ELSE IF Truthy(ctx.email) /\ Truthy(ctx.phone)
        THEN reply \o <<"\n", "\n", "I", " ", "h", "a", "v", "e", " ", "y", "o", "u", "r", " ", "e", "m", "a", "i", "l", " ", "(">> \o ctx.email.s
                   \o <<")", " ", "a", "n", "d", " ", "p", "h", "o", "n", "e", " ", "(">> \o ctx.phone.s \o <<")">>
        ELSE reply \o <<"\n", "\n", "I", "'", "l", "l", " ", "n", "e", "e", "d", " ", "y", "o", "u", "r", " ">>
                   \o Join(<<" ", "a", "n", "d", " ">>, missing_info)

\* the user message is kept as the query that was sent to the model
add_messages_stripped(messages, user_input, reply) ==
    messages \o <<[type |-> "human", content |-> Strip(user_input)],
                  [type |-> "ai", content |-> reply]>>

\* only the latest exchange is kept
add_messages_latest(messages, user_input, reply) ==
    <<[type |-> "human", content |-> user_input], [type |-> "ai", content |-> reply]>>

\* memory.add_user_message(req.user_input); memory.add_ai_message(reply)
add_messages(messages, user_input, reply) ==
    messages \o <<[type |-> "human", content |-> user_input],
                  [type |-> "ai", content |-> reply]>>

\* [{"role": msg.type, "content": msg.content} for msg in messages]
serialize_messages(messages) ==
    [i \in 1..Len(messages) |-> [role |-> messages[i].type, content |-> messages[i].content]]

ChatRequests ==
    [user_input : {<<" ", "r", "i", "n", "g", " ">>, <<"b", "o", "o", "k", " ", "a", "@", "b", ".", "c", "o">>}, history : {<<>>}]

\* what chain.invoke does: it raises, or answers a message with this content
ChainResults ==
    {[kind |-> "raise"], [kind |-> "content", content |-> <<"o", "k", " ">>]}

\* reply = result.content.strip() and its appointment sentence, for every request and
\* answer drawn, with and without a scheduler
Replies ==
    {[req |-> req, llm |-> llm, scheduler |-> scheduler,
      reply |-> enhance_reply(Strip(llm.content),
                              is_appointment_request(Strip(req.user_input)),
                              appointment_context(Strip(req.user_input), req.history,
                                                  scheduler),
                              scheduler)] :
        req \in ChatRequests, llm \in {r \in ChainResults : r.kind = "content"},
        scheduler \in BOOLEAN}

\* POST /chat, which never suspends: llm is what chain.invoke does, an answer or an
\* exception, and any exception before the two appends ends in the 500 answer whose
\* sentence is one of three drawn at random
Chat(t, req, llm) ==
    /\ ~Pending(t)
    /\ Len(memory) + 2 <= MaxMemory
    /\ IF llm.kind = "raise"
       THEN /\ memory' = memory
            /\ \E choice \in {"Looks like", "Ha!", "Perfect demo moment!"} :
                    http' = [http EXCEPT ![t] =
                        [endpoint |-> "chat", req |-> req, status |-> 500,
                         content |-> [error |-> <<choice>>]]]
       ELSE LET reply == (CHOOSE r \in Replies :
                            r.req = req /\ r.llm = llm /\ r.scheduler = ghl_scheduler).reply
                messages == add_messages(memory, req.user_input, reply)
            IN  /\ memory' = messages
                /\ http' = [http EXCEPT ![t] =
                        [endpoint |-> "chat", req |-> req, status |-> 200,
                         content |-> [reply |-> reply,
                                      history |-> serialize_messages(messages)]]]
    /\ UNCHANGED <<config, task, context, calendar, summary_call, extract_call, helper,
                   search_call, ghl_scheduler>>

\* POST /clear_chat
ClearChat(t) ==
    /\ ~Pending(t)
    /\ memory' = <<>>
    /\ http' = [http EXCEPT ![t] =
            [endpoint |-> "clear_chat", req |-> PyNone, status |-> 200,
             content |-> [status |-> "ok"]]]
    /\ UNCHANGED <<config, task, context, calendar, summary_call, extract_call, helper,
                   search_call, ghl_scheduler>>

\* a scheduler failure is answered like a success
schedule_response_always_ok(done) ==
    IF done.how = "raise"
    THEN [status |-> 500, content |-> [success |-> FALSE, error |-> <<"Ha!">>]]
    ELSE [status |-> 200, content |-> [success |-> TRUE]]

\* the answer of /schedule_appointment to the completion of schedule_from_conversation
schedule_response(done) ==
    IF done.how = "raise"
    THEN [status |-> 500, content |-> [success |-> FALSE, error |-> <<"Ha!">>]]
    ELSE IF done.value.success
    THEN [status |-> 200,
          content |-> [success |-> TRUE,
                       message |-> "Your appointment has been scheduled successfully!",
                       appointment_time |-> done.value.appointment_time,
                       calendar_type |-> done.value.calendar_type,
                       details |-> done.value.result]]
    ELSE [status |-> 400,
          content |-> [success |-> FALSE,
                       error |-> <<"You know what's brilliant?", done.value.error>>]]

\* the request of the caller answered
Answered(t, req, response) ==
    [endpoint |-> "schedule_appointment", req |-> req, status |-> response.status,
     content |-> response.content]

\* POST /schedule_appointment up to its answer or to the remote call
ScheduleAppointment(t, req, now) ==
    /\ ~Pending(t)
    /\ IF ~ghl_scheduler
       THEN /\ http' = [http EXCEPT ![t] = Answered(t, req,
                            [status |-> 503,
                             content |-> [success |-> FALSE, error |-> <<"Perfect timing!">>]])]
            /\ UNCHANGED <<config, task, calls>>
       ELSE /\ schedule_from_conversation(t, req.conversation_messages,
                    [name |-> req.customer_name, email |-> req.customer_email,
                     phone |-> req.customer_phone],
                    req.preferred_time, req.appointment_type, now)
            /\ http' = [http EXCEPT ![t] =
                    IF task'[t].pc = "awaiting"
                    THEN [endpoint |-> "schedule_appointment", req |-> req, status |-> 0,
                          content |-> PyNone]
                    ELSE Answered(t, req, schedule_response(task'[t].ret))]

\* /schedule_appointment from the answer of the remote server on
ScheduleAppointmentResume(t, outcome) ==
    /\ Pending(t)
    /\ Response(t, outcome)
    /\ http' = [http EXCEPT ![t] = Answered(t, http[t].req, schedule_response(task'[t].ret))]

\* the handler's frame is released
Release(t) ==
    /\ ~Pending(t)
    /\ Finish(t)
    /\ UNCHANGED http

\* the remote call times out, or answers a contact, an error or null
AppOutcomes ==
    {o \in Outcomes :
        \/ o.kind = "raise" /\ o.exc = "TimeoutError"
        \/ /\ o.kind = "http" /\ o.status = 200 /\ o.body.kind = "value"
           /\ \/ o.body.value = PyNone
              \/ o.body.value.type = "dict" /\ o.body.value # PyDict([error |-> PyInt(404)])}

InitApp ==
    /\ config = NewClient
    /\ task = [t \in Tasks |-> IdleTask]
    /\ context = <<>>
    /\ calendar = NotCalled
    /\ summary_call = NoSummaryCall
    /\ extract_call = NoExtractCall
    /\ helper = NoHelperCalls
    /\ search_call = NoSearchCall
    /\ ghl_scheduler \in BOOLEAN
    /\ memory = <<>>
    /\ http = [t \in Tasks |-> NoRequest]

\* the requests of two callers served by one event loop
NextApp ==
    \E t \in Tasks :
        \/ \E req \in ChatRequests, llm \in ChainResults : Chat(t, req, llm)
        \/ ClearChat(t)
        \/ \E req \in {[customer_name |-> "Ann Lee", customer_email |-> e, customer_phone |-> "(555) 123-4567", preferred_time |-> PyNone, appointment_type |-> "consultation", conversation_messages |-> TrAppraised] : e \in {"", "ann@example.com"}} : ScheduleAppointment(t, req, [day |-> 1, hour |-> 9])
        \/ \E o \in AppOutcomes : ScheduleAppointmentResume(t, o)
        \/ Release(t)

SpecApp == InitApp /\ [][NextApp]_vars

----------------------------------------------------------------------------
(* web_search_tool.py: WebSearchTool.search; a character outside ASCII is written by
   its code point *)

DISALLOWED_KEYWORDS ==
    <<<<"h", "a", "c", "k">>, <<"p", "o", "r", "n">>, <<"m", "a", "l", "w", "a", "r", "e">>,
      <<"t", "o", "r", "r", "e", "n", "t">>, <<"c", "r", "a", "c", "k">>, <<"p", "i", "r", "a", "t", "e">>,
      <<"i", "l", "l", "e", "g", "a", "l">>, <<"d", "r", "u", "g", "s">>, <<"v", "i", "o", "l", "e", "n", "c", "e">>,
      <<"w", "e", "a", "p", "o", "n">>>>

JEWELRY_KEYWORDS ==
    <<<<"d", "i", "a", "m", "o", "n", "d">>, <<"r", "i", "n", "g">>, <<"e", "n", "g", "a", "g", "e", "m", "e", "n", "t">>,
      <<"w", "e", "d", "d", "i", "n", "g">>, <<"j", "e", "w", "e", "l", "r", "y">>, <<"g", "e", "m", "s", "t", "o", "n", "e">>,
      <<"g", "o", "l", "d">>, <<"p", "l", "a", "t", "i", "n", "u", "m">>, <<"s", "i", "l", "v", "e", "r">>,
      <<"e", "a", "r", "r", "i", "n", "g", "s">>, <<"n", "e", "c", "k", "l", "a", "c", "e">>, <<"b", "r", "a", "c", "e", "l", "e", "t">>,
      <<"w", "a", "t", "c", "h">>, <<"a", "p", "p", "r", "a", "i", "s", "a", "l">>, <<"c", "e", "r", "t", "i", "f", "i", "c", "a", "t", "i", "o", "n">>,
      <<"G", "I", "A">>, <<"c", "l", "a", "r", "i", "t", "y">>, <<"c", "a", "r", "a", "t">>,
      <<"c", "u", "t">>, <<"c", "o", "l", "o", "r">>>>

\* the query is compared as it was typed
is_query_safe_as_typed(query) ==
    \A i \in 1..Len(DISALLOWED_KEYWORDS) : ~Contains(query, DISALLOWED_KEYWORDS[i])

is_query_safe(query) ==
    \A i \in 1..Len(DISALLOWED_KEYWORDS) : ~Contains(Lower(query), DISALLOWED_KEYWORDS[i])

\* any(keyword in lower for keyword in JEWELRY_KEYWORDS)
should_search_web(query) ==
    \E i \in 1..Len(JEWELRY_KEYWORDS) : Contains(Lower(query), JEWELRY_KEYWORDS[i])

StrDisallowed ==
    <<"U+26A0", "U+FE0F", " ", "Y", "o", "u", "r", " ", "s", "e", "a", "r", "c", "h", " ", "q", "u", "e", "r", "y", " ", "a", "p", "p", "e", "a", "r", "s", " ", "t", "o", " ", "b", "e", " ", "d", "i", "s", "a", "l", "l", "o", "w", "e", "d", ".", " ", "P", "l", "e", "a", "s", "e", " ", "r", "e", "f", "i", "n", "e", " ", "y", "o", "u", "r", " ", "r", "e", "q", "u", "e", "s", "t", ".">>

StrNoResults ==
    <<"U+2139", "U+FE0F", " ", "N", "o", " ", "r", "e", "c", "e", "n", "t", " ", "w", "e", "b", " ", "r", "e", "s", "u", "l", "t", "s", " ", "f", "o", "u", "n", "d", ".", " ", "U", "s", "i", "n", "g", " ", "l", "o", "c", "a", "l", " ", "j", "e", "w", "e", "l", "r", "y", " ", "e", "x", "p", "e", "r", "t", "i", "s", "e", ".">>

\* the lines of one result: title, snippet cut at 150 characters, source
ItemLines(item, idx, verify_urls, accessible) ==
    LET title == IF "title" \in DOMAIN item THEN item.title ELSE <<"N", "o", " ", "t", "i", "t", "l", "e">>
        content == IF "content" \in DOMAIN item THEN Strip(item.content) ELSE <<>>
        flat == [i \in 1..Len(content) |-> IF content[i] = "\n" THEN " " ELSE content[i]]
        snippet == IF Len(flat) > 150 THEN SliceTo(flat, 150) \o <<".", ".", ".">> ELSE flat
        url == IF "url" \in DOMAIN item THEN item.url ELSE <<>>
        url_display == IF verify_urls /\ url # <<>>
                       THEN url \o (IF accessible THEN <<" ", "U+2705">>
                                    ELSE <<" ", "U+26A0", "U+FE0F">>)
                       ELSE url
    IN  <<<<<<"1">>, <<"2">>, <<"3">>, <<"4">>, <<"5">>>>[idx] \o <<".", " ", "*", "*">> \o title \o <<"*", "*">>>>
        \o (IF snippet # <<>> THEN <<<<" ", " ", " ">> \o snippet>> ELSE <<>>)
        \o <<<<" ", " ", " ", "S", "o", "u", "r", "c", "e", ":", " ">> \o url_display, <<>>>>

RECURSIVE output_lines(_, _, _, _)
output_lines(results, idx, verify_urls, accessible) ==
    IF idx > Len(results) THEN <<>>
    ELSE ItemLines(results[idx], idx, verify_urls, accessible)
         \o output_lines(results, idx + 1, verify_urls, accessible)

\* WebSearchTool.search(query) of a tool built with this key and these options, on the
\* answer of the search service; verify_url finds every source accessible or none
search(api_key, verify_urls, query, num_results, answer) ==
    IF ~api_key
    THEN Return(PyStr(<<"U+2139", "U+FE0F", " ", "W", "e", "b", " ", "s", "e", "a", "r", "c", "h", " ", "u", "n", "a", "v", "a", "i", "l", "a", "b", "l", "e", " ", "-", " ", "T", "A", "V", "I", "L", "Y", "_", "A", "P", "I", "_", "K", "E", "Y", " ", "n", "o", "t", " ", "c", "o", "n", "f", "i", "g", "u", "r", "e", "d", ".">>))
    ELSE IF ~is_query_safe(query) THEN Return(PyStr(StrDisallowed))
    ELSE IF ~should_search_web(query) THEN Return(PyStr(<<>>))
    ELSE IF answer.kind = "Timeout"
    THEN Return(PyStr(<<"U+23F1", "U+FE0F", " ", "W", "e", "b", " ", "s", "e", "a", "r", "c", "h", " ", "t", "i", "m", "e", "d", " ", "o", "u", "t", ".", " ", "U", "s", "i", "n", "g", " ", "l", "o", "c", "a", "l", " ", "k", "n", "o", "w", "l", "e", "d", "g", "e", " ", "b", "a", "s", "e", ".">>))
    ELSE IF answer.kind = "RequestException"
    THEN Return(PyStr(<<"U+274C", " ", "W", "e", "b", " ", "s", "e", "a", "r", "c", "h", " ", "t", "e", "m", "p", "o", "r", "a", "r", "i", "l", "y", " ", "u", "n", "a", "v", "a", "i", "l", "a", "b", "l", "e", ".", " ", "U", "s", "i", "n", "g", " ", "l", "o", "c", "a", "l", " ", "k", "n", "o", "w", "l", "e", "d", "g", "e", " ", "b", "a", "s", "e", ".">>))
    ELSE IF answer.kind = "Exception" THEN Return(PyStr(<<>>))
    ELSE IF answer.data.type # "dict" THEN Raise("AttributeError", <<>>)
    ELSE LET results == IF "results" \in DOMAIN answer.data.fields
                        THEN answer.data.fields.results.items ELSE <<>>
         IN  IF results = <<>> THEN Return(PyStr(StrNoResults))
             ELSE Return(PyStr(Join(<<"\n">>,
                        <<<<"U+1F310", " ", "*", "*", "L", "a", "t", "e", "s", "t", " ", "I", "n", "f", "o", "r", "m", "a", "t", "i", "o", "n", ":", "*", "*">>>>
                        \o output_lines(SliceTo(results, num_results), 1, verify_urls,
                                        answer.accessible))))

\* a stand-alone search of the tool as app.py builds it
SearchWeb ==
    /\ ~search_call.done
    /\ search_call' = [search_call EXCEPT
            !.done = TRUE,
            !.value = search(TRUE, TRUE, search_call.query, 5, search_call.answer)]
    /\ UNCHANGED <<config, task, context, calendar, summary_call, extract_call, helper,
                   ghl_scheduler, memory, http>>

InitSearch ==
    /\ config = NewClient
    /\ task = [t \in Tasks |-> IdleTask]
    /\ context = <<>>
    /\ calendar = NotCalled
    /\ summary_call = NoSummaryCall
    /\ extract_call = NoExtractCall
    /\ helper = NoHelperCalls
    /\ search_call \in {[query |-> q, answer |-> a, done |-> FALSE, value |-> PyNone] :
                            q \in {<<"d", "i", "a", "m", "o", "n", "d", " ", "r", "i", "n", "g">>, <<"h", "a", "c", "k", " ", "a", " ", "r", "i", "n", "g">>, <<"h", "o", "w", " ", "t", "o", " ", "H", "A", "C", "K">>, <<"w", "e", "a", "t", "h", "e", "r", " ", "t", "o", "d", "a", "y">>, <<>>, <<"G", "I", "A">>, <<"i", "l", "l", "e", "g", "a", "l", " ", "d", "r", "u", "g", "s">>, <<"g", "o", "l", "d">>}, a \in {[kind |-> "Timeout"], [kind |-> "RequestException"], [kind |-> "Exception"]} \cup {[kind |-> "json", data |-> d, accessible |-> a] : d \in {PyDict([results |-> PyList(<<>>)]), PyDict([query |-> PyStr(<<"q">>)]), PyList(<<>>), PyDict([results |-> PyList(<<[title |-> <<"G", "I", "A">>, content |-> <<" ", "4", "C", "s", "\n", "o", "f", " ", "d", "i", "a", "m", "o", "n", "d", "s", " ">>, url |-> <<"h", "t", "t", "p", "s", ":", "/", "/", "g", "i", "a", ".", "e", "d", "u">>], [content |-> <<>>]>>)])}, a \in BOOLEAN}}
    /\ ghl_scheduler = TRUE
    /\ memory = <<>>
    /\ http = [t \in Tasks |-> NoRequest]

SpecSearch == InitSearch /\ [][SearchWeb]_vars

----------------------------------------------------------------------------
(* Properties *)

Scheduling(t) == task[t].op = "schedule_from_conversation"

\* one of the three identity fields of the invocation is empty
IdentityMissing(t) ==
    \/ task[t].args.customer_name = ""
    \/ task[t].args.customer_email = ""
    \/ task[t].args.customer_phone = ""

Over(t) == task[t].pc \in {"returned", "raised"}

\* the answer the caller received was a failure of the transport, of the status or of the body
RemoteFailed(t) ==
    /\ task[t].outcome # PyNone
    /\ \/ task[t].outcome.kind = "raise"
       \/ task[t].outcome.status < 200
       \/ task[t].outcome.status >= 300
       \/ task[t].outcome.body.kind = "raise"

\* {"error": <str>} and nothing else
IsErrorValue(v) ==
    /\ v.type = "dict"
    /\ DOMAIN v.fields = {"error"}
    /\ v.fields.error.type = "str"

\* C1: schedule_from_conversation with an empty name, email or phone returns the Failure
\* envelope "Missing required customer information (name, email, phone)" and sends no
\* request; a request is sent only when the three fields are non-empty.
C1_MissingIdentityFailsUnsent ==
    \A t \in Tasks :
        Scheduling(t) =>
            /\ IdentityMissing(t) =>
                    /\ task[t].pc = "returned"
                    /\ task[t].ret = [how |-> "return",
                                      value |-> [success |-> FALSE, error |-> PyStr(StrMissingInfo)]]
                    /\ task[t].requests = <<>>
            /\ task[t].requests # <<>> => ~IdentityMissing(t)

C1_Witness ==
    \E t \in Tasks :
        /\ Scheduling(t)
        /\ task[t].args.customer_name # ""
        /\ task[t].args.customer_email # ""
        /\ task[t].args.customer_phone = ""
        /\ task[t].pc = "returned"
        /\ task[t].ret.value.success = FALSE
        /\ task[t].requests = <<>>

\* Success or Failure with a string message
IsEnvelope(v) ==
    IF v.success
    THEN DOMAIN v = {"success", "result", "appointment_time", "calendar_type", "calendar_id"}
    ELSE DOMAIN v = {"success", "error"} /\ v.error.type = "str"

\* C2: whatever the transcript and the outcome of the remote call, schedule_from_conversation
\* returns Success or Failure with a string message and no exception escapes it.
C2_AlwaysAnEnvelope ==
    \A t \in Tasks :
        Scheduling(t) =>
            /\ task[t].pc # "raised"
            /\ task[t].pc = "returned" => IsEnvelope(task[t].ret.value)

InAllowList(t) ==
    \E i \in 1..Len(config.available_tools) : config.available_tools[i] = task[t].args.tool_name

\* C4: call_mcp_tool with a tool name outside the allow-list returns an error value at once
\* and sends no request, whatever the arguments.
C4_UnlistedToolUnsent ==
    \A t \in Tasks :
        (task[t].op = "call_mcp_tool" /\ ~InAllowList(t)) =>
            /\ task[t].pc = "returned"
            /\ task[t].requests = <<>>
            /\ IsErrorValue(task[t].ret.value)

C4_Witness ==
    \E t \in Tasks :
        /\ task[t].op = "call_mcp_tool"
        /\ task[t].args.tool_name = ToolDeleteEverything
        /\ task[t].pc = "returned"
        /\ task[t].requests = <<>>
        /\ "error" \in DOMAIN task[t].ret.value.fields

\* the value create_contact_and_schedule returned signals a failure
CarriesError(t) ==
    task[t].result.type = "dict" /\ "error" \in DOMAIN task[t].result.fields

\* C5: with the three identity fields non-empty, a remote result carrying an error indicator
\* gives Failure with exactly that error, and any other remote result gives Success with the
\* result unchanged, the computed time and the label and id of the selected calendar.
C5_ErrorIndicatorDecides ==
    \A t \in Tasks :
        (Scheduling(t) /\ ~IdentityMissing(t) /\ Over(t)) =>
            IF CarriesError(t)
            THEN task[t].ret = [how |-> "return",
                                value |-> [success |-> FALSE, error |-> task[t].result.fields.error]]
            ELSE task[t].ret =
                    [how |-> "return",
                     value |-> [success          |-> TRUE,
                                result           |-> task[t].result,
                                appointment_time |-> task[t].locals.appointment_time,
                                calendar_type    |-> get_calendar_type(task[t].locals.calendar_id),
                                calendar_id      |-> task[t].locals.calendar_id]]

\* C6: a schedule_from_conversation invocation that passes validation sends exactly one
\* request; after the call fails no other request is sent and the caller gets that failure.
C6_OneRequestNoRetry ==
    \A t \in Tasks :
        (Scheduling(t) /\ ~IdentityMissing(t)) =>
            /\ Len(task[t].requests) = 1
            /\ (Over(t) /\ CarriesError(t)) =>
                    /\ task[t].pc = "returned"
                    /\ task[t].ret.value = [success |-> FALSE, error |-> task[t].result.fields.error]

C6_Witness ==
    \E t \in Tasks :
        /\ Scheduling(t)
        /\ task[t].pc = "returned"
        /\ RemoteFailed(t)
        /\ Len(task[t].requests) = 1
        /\ task[t].ret.value.success = FALSE

\* the ids of the client's calendar mapping
MappedIds == {config.calendar_mappings[k] : k \in DOMAIN config.calendar_mappings}

\* C9: the calendar_id in the request of create_contact_and_schedule is the supplied id when
\* that is a value of the calendar mapping and the default id otherwise; an unrecognized id
\* neither makes the call return early nor keeps the request from being sent.
C9_RequestCalendarIsMapped ==
    \A t \in Tasks :
        task[t].op = "create_contact_and_schedule" =>
            /\ Len(task[t].requests) = 1
            /\ task[t].requests[1].json.arguments.calendar_id \in MappedIds
            /\ task[t].requests[1].json.arguments.calendar_id =
                    IF task[t].args.calendar_id \in MappedIds
                    THEN task[t].args.calendar_id
                    ELSE config.calendar_mappings["default"]
            /\ task[t].pc = "returned" => task[t].outcome # PyNone

C9_Witness ==
    \E t \in Tasks :
        /\ task[t].op = "create_contact_and_schedule"
        /\ task[t].args.calendar_id = "bogus-calendar"
        /\ task[t].pc = "returned"
        /\ task[t].requests[1].json.arguments.calendar_id = "1a2FZj1zqXPbPnrElQD1"
        /\ task[t].ret.value.type = "dict"
        /\ "contact_id" \in DOMAIN task[t].ret.value.fields

\* some word of the bucket occurs in the context, letter case aside
Mentions(words) ==
    \E k \in 1..Len(words) :
        \E i \in 0..(Len(context) - Len(words[k])) :
            \A j \in 1..Len(words[k]) : LowerChar(context[i + j]) = words[k][j]

\* C7: select_calendar tries the buckets appraisals, custom_jewelry, campaign in this order,
\* by case-insensitive substring; the first bucket with a keyword in the text gives the
\* calendar (appraisals when both appraisal and custom keywords occur), and a text matching
\* no bucket gives the demo calendar.
C7_FirstBucketWins ==
    calendar # NotCalled =>
        /\ Mentions(KwAppraisals) => calendar = "7pRF2Il5lcRZIMBdSkBx"
        /\ (~Mentions(KwAppraisals) /\ Mentions(KwCustom)) => calendar = "1c0RCj9LXQr9iDQaDTn9"
        /\ (~Mentions(KwAppraisals) /\ ~Mentions(KwCustom) /\ Mentions(KwCampaign)) =>
                calendar = "CuOcD0x88h7NPvfub9"
        /\ (~Mentions(KwAppraisals) /\ ~Mentions(KwCustom) /\ ~Mentions(KwCampaign)) =>
                calendar = "1a2FZj1zqXPbPnrElQD1"

C7_Witness ==
    /\ calendar = "7pRF2Il5lcRZIMBdSkBx"
    /\ Mentions(KwAppraisals)
    /\ Mentions(KwCustom)

\* C8: select_calendar always returns a value of the calendar mapping, and the id of the
\* default category when no bucket matches.
C8_SelectedIsMapped ==
    calendar # NotCalled =>
        /\ calendar \in MappedIds
        /\ (~Mentions(KwAppraisals) /\ ~Mentions(KwCustom) /\ ~Mentions(KwCampaign)) =>
                calendar = config.calendar_mappings["default"]

C8_Witness ==
    /\ calendar # NotCalled
    /\ context # <<>>
    /\ ~Mentions(KwAppraisals) /\ ~Mentions(KwCustom) /\ ~Mentions(KwCampaign)
    /\ calendar = config.calendar_mappings["default"]

\* what the invocation of caller t sends when it runs with no other caller
RequestsAlone(t) ==
    LET a == task[t].args
        l == ScheduleLocals(config, a.conversation_messages, a.preferred_time, task[t].now)
    IN  create_contact_and_schedule(config, a.customer_name, a.customer_email, a.customer_phone,
            l.conversation_summary, l.calendar_id, l.appointment_time).requests

\* how it ends, with no other caller, on the answer it received
OutcomeAlone(t) ==
    LET a == task[t].args
        l == ScheduleLocals(config, a.conversation_messages, a.preferred_time, task[t].now)
        called == call_mcp_tool_resume(task[t].outcome)
    IN  IF called.how = "return"
        THEN schedule_resume(called.value, l.appointment_time, l.calendar_id)
        ELSE called

\* C10: two schedule_from_conversation invocations interleaved at their suspension points
\* each send the request and get the result they would alone with the same remote answer.
C10_InvocationsIndependent ==
    \A t \in Tasks :
        (Scheduling(t) /\ ~IdentityMissing(t)) =>
            /\ task[t].requests = RequestsAlone(t)
            /\ Over(t) => task[t].ret = OutcomeAlone(t)

C10_Witness ==
    /\ Scheduling(1) /\ Scheduling(2)
    /\ task[1].pc = "returned"
    /\ task[2].pc = "awaiting"
    /\ task[1].ret.value.success
    /\ task[1].args.customer_name # task[2].args.customer_name
    /\ task[1].ret.value.calendar_id # task[2].locals.calendar_id
    /\ task[1].ret.value.appointment_time # task[2].locals.appointment_time

\* C11: no operation of the client, the extractor or the scheduler changes the client's base
\* URL, timeout, allow-list or calendar mapping, whether the call succeeds or fails.
C11_ConfigurationFrozen ==
    [][/\ config'.base_url = config.base_url
       /\ config'.timeout = config.timeout
       /\ config'.available_tools = config.available_tools
       /\ config'.calendar_mappings = config.calendar_mappings]_vars

C11_Witness ==
    \E t \in Tasks :
        /\ task[t].op = "create_contact_and_schedule"
        /\ task[t].args.calendar_id = "bogus-calendar"
        /\ task[t].pc = "returned"
        /\ RemoteFailed(t)
        /\ config.calendar_mappings["default"] = "1a2FZj1zqXPbPnrElQD1"
        /\ Len(config.available_tools) = 9

\* the caller passed a preferred time: a string that is not empty
PreferredSupplied(t) ==
    task[t].args.preferred_time.type = "str" /\ Len(task[t].args.preferred_time.s) > 0

\* C12: a preferred time supplied by the caller is what suggest_appointment_time returns,
\* unmodified and unvalidated, and what schedule_from_conversation sends as start_time.
C12_PreferredTimePassedThrough ==
    \A t \in Tasks :
        (Scheduling(t) /\ ~IdentityMissing(t) /\ PreferredSupplied(t)) =>
            /\ task[t].locals.appointment_time = task[t].args.preferred_time
            /\ Len(task[t].requests) = 1
            /\ task[t].requests[1].json.arguments.start_time = task[t].args.preferred_time

C12_Witness ==
    \E t \in Tasks :
        /\ Scheduling(t)
        /\ task[t].args.preferred_time = PyStr(TxtWhenever)
        /\ task[t].pc = "awaiting"
        /\ task[t].requests[1].json.arguments.start_time = PyStr(TxtWhenever)

\* C13: without a preferred time the suggestion is 14:00:00.000000 of the first weekday after
\* the current day: tomorrow when that is Monday to Friday, else the following Monday; it is
\* in the future and the weekend loop advances at most twice.
C13_NextBusinessDayAtTwo ==
    \A t \in Tasks :
        (Scheduling(t) /\ ~IdentityMissing(t) /\ ~PreferredSupplied(t)) =>
            LET today == task[t].now.day
                weekday == today % 7
                suggested == task[t].locals.appointment_time.iso
            IN  /\ suggested.hour = 14 /\ suggested.minute = 0
                /\ suggested.second = 0 /\ suggested.microsecond = 0
                /\ suggested.day = CASE weekday \in {0, 1, 2, 3, 6} -> today + 1
                                      [] weekday = 4 -> today + 3
                                      [] weekday = 5 -> today + 2
                /\ suggested.day > today
                /\ suggested.day % 7 \in 0..4
                /\ \A d \in (today + 1)..(suggested.day - 1) : d % 7 \in {5, 6}
                /\ SkipWeekendSteps(today + 1) <= 2
                /\ suggested.day = today + 1 + SkipWeekendSteps(today + 1)
                /\ task[t].requests[1].json.arguments.start_time = task[t].locals.appointment_time

C13_Witness ==
    \E t \in Tasks :
        /\ Scheduling(t)
        /\ task[t].pc = "returned"
        /\ task[t].now # PyNone
        /\ task[t].now.day % 7 = 4
        /\ task[t].ret.value.success
        /\ task[t].ret.value.appointment_time.iso.day = task[t].now.day + 3

\* the text the claimed window of the last min(6, n) messages renders to
WindowText ==
    LET n == Len(summary_call.messages)
        k == IF n < 6 THEN n ELSE 6
        part(i) ==
            LET msg == summary_call.messages[n - k + i]
                shown == IF Len(msg.content) < 100 THEN Len(msg.content) ELSE 100
            IN  (IF msg.role = "user" THEN StrCustomer ELSE StrAssistant)
                    \o <<":", " ">> \o SubSeq(msg.content, 1, shown)
    IN  Join(<<" ", "|", " ">>, [i \in 1..k |-> part(i)])

EndsWithEllipsis(s) ==
    Len(s) >= 3 /\ SubSeq(s, Len(s) - 2, Len(s)) = <<".", ".", ".">>

\* C14: the string generate_conversation_summary returns has at most max_length characters,
\* and ends with an ellipsis when the untruncated text overflowed.
C14_SummaryWithinMaxLength ==
    summary_call.done =>
        /\ Len(summary_call.value) <= summary_call.max_length
        /\ (summary_call.messages # <<>> /\ Len(WindowText) > summary_call.max_length)
                => EndsWithEllipsis(summary_call.value)

\* C15: for a non-empty transcript the summary is built from the last min(6, n) messages in
\* order, each as role label ("Customer" for user, else "Assistant"), ": " and the first 100
\* characters of the content, joined by " | "; earlier messages contribute nothing.
C15_SummaryOfLastSix ==
    (summary_call.done /\ summary_call.messages # <<>>) =>
        summary_call.value =
            StrSummaryPrefix \o
                (IF Len(WindowText) > summary_call.max_length
                 THEN SliceTo(WindowText, summary_call.max_length - 3) \o <<".", ".", ".">>
                 ELSE WindowText)

C15_Witness ==
    /\ summary_call.done
    /\ Len(summary_call.messages) = 7
    /\ summary_call.messages[1].role = "user"
    /\ summary_call.messages[2].role = "assistant"
    /\ summary_call.messages[3].role = "system"
    /\ summary_call.max_length = 1000
    /\ summary_call.value = StrSummaryPrefix \o WindowText

\* some word of the bucket occurs in the text, letter case aside
MentionsIn(text, words) ==
    \E k \in 1..Len(words) :
        \E i \in 0..(Len(text) - Len(words[k])) :
            \A j \in 1..Len(words[k]) : LowerChar(text[i + j]) = words[k][j]

\* the calendar of the first bucket the text mentions
BucketCalendar(text) ==
    IF MentionsIn(text, KwAppraisals) THEN "7pRF2Il5lcRZIMBdSkBx"
    ELSE IF MentionsIn(text, KwCustom) THEN "1c0RCj9LXQr9iDQaDTn9"
    ELSE IF MentionsIn(text, KwCampaign) THEN "CuOcD0x88h7NPvfub9"
    ELSE "1a2FZj1zqXPbPnrElQD1"

\* the contents of all messages of the invocation, joined by single spaces
WholeTranscriptText(t) ==
    Join(<<" ">>, [i \in 1..Len(task[t].args.conversation_messages) |->
                        task[t].args.conversation_messages[i].content])

\* C16: schedule_from_conversation selects the calendar from the contents of all messages of
\* the transcript; a keyword only in a message older than the last six decides the calendar
\* although that message is no part of the notes sent.
C16_CalendarFromWholeTranscript ==
    \A t \in Tasks :
        (Scheduling(t) /\ ~IdentityMissing(t)) =>
            LET msgs == task[t].args.conversation_messages
                sent == task[t].requests[1].json.arguments
            IN  /\ sent.calendar_id = BucketCalendar(WholeTranscriptText(t))
                /\ Len(msgs) > 6 =>
                        sent.notes = generate_conversation_summary(
                                        SubSeq(msgs, Len(msgs) - 5, Len(msgs)), 500)

C16_Witness ==
    \E t \in Tasks :
        /\ Scheduling(t)
        /\ task[t].pc = "awaiting"
        /\ Len(task[t].args.conversation_messages) = 7
        /\ MentionsIn(task[t].args.conversation_messages[1].content, KwCampaign)
        /\ \A i \in 2..7 :
                BucketCalendar(task[t].args.conversation_messages[i].content)
                    = "1a2FZj1zqXPbPnrElQD1"
        /\ task[t].requests[1].json.arguments.calendar_id = "CuOcD0x88h7NPvfub9"
        /\ ~MentionsIn(task[t].requests[1].json.arguments.notes, KwCampaign)

\* every number of the pool in every style: <<style, number, its writing>>
Writings == {<<st, num, RenderPhone(st, num)>> : st \in PhoneStyles, num \in {<<<<"5", "5", "5">>, <<"1", "2", "3">>, <<"4", "5", "6", "7">>>>, <<<<"4", "4", "4">>, <<"1", "2", "3">>, <<"9", "8", "7", "6">>>>}}

\* the writing w follows the first p characters of text
WrittenAt(text, p, w) ==
    /\ p + Len(w[3]) <= Len(text)
    /\ text[p + 1] = w[3][1]
    /\ SubSeq(text, p + 1, p + Len(w[3])) = w[3]

\* where a number of the pool stands in the text, and in which style:
\* <<position, style, number>>
Occurrences(text) ==
    {<<o[1], o[2][1], o[2][2]>> : o \in {x \in (0..Len(text)) \X Writings : WrittenAt(text, x[1], x[2])}}

\* (AAA) BBB-CCCC
Canonical(num) == <<"(">> \o num[1] \o <<")", " ">> \o num[2] \o <<"-">> \o num[3]

\* the first digit of the occurrence is not directly preceded, and its last
\* digit not directly followed, by a letter, a digit or an underscore
OnWordBoundaries(text, o) ==
    LET r == RenderPhone(o[2], o[3])
        first == o[1] + (CHOOSE i \in 1..Len(r) : r[i] \in DigitSet /\ \A j \in 1..(i - 1) : r[j] \notin DigitSet)
        last == o[1] + Len(r)
    IN  /\ first = 1 \/ text[first - 1] \notin WordSet
        /\ last = Len(text) \/ text[last + 1] \notin WordSet

NoDigitBefore(text, o) == \A i \in 1..o[1] : text[i] \notin DigitSet

\* C17 as stated: whenever the text contains a ten-digit number in one of the
\* supported styles, the phone returned is the first such number, formatted
\* as (AAA) BBB-CCCC.
C17_PhoneFromAnyText ==
    extract_call.done =>
        \A o \in Occurrences(extract_call.text) :
            (\A o2 \in Occurrences(extract_call.text) : o[1] <= o2[1])
                => extract_call.value.phone = PyStr(Canonical(o[3]))

\* C17 amended: a ten-digit number in a supported style that stands on word
\* boundaries, with no digit earlier in the text, is returned formatted as
\* (AAA) BBB-CCCC.
C17_PhoneOnWordBoundaries ==
    extract_call.done =>
        \A o \in Occurrences(extract_call.text) :
            (OnWordBoundaries(extract_call.text, o) /\ NoDigitBefore(extract_call.text, o))
                => extract_call.value.phone = PyStr(Canonical(o[3]))

\* "+1", parentheses and a second number later in the text: the first is returned
C17_Witness ==
    /\ extract_call.done
    /\ Contains(extract_call.text, TxtSecondPhone)
    /\ \E o \in Occurrences(extract_call.text) :
        /\ o[2].paren /\ Len(o[2].lead) = 2 /\ o[2].sep1 = <<".">> /\ o[2].sep2 = <<>>
        /\ o[1] > 0
        /\ OnWordBoundaries(extract_call.text, o)
        /\ NoDigitBefore(extract_call.text, o)
        /\ extract_call.value.phone = PyStr(Canonical(o[3]))

\* the patterns of name_patterns that match somewhere in the lowered text
MatchingPatterns(text) ==
    {i \in 1..Len(name_patterns) : name_search(name_patterns[i], Lower(text)).ok}

IsTrimmed(s) == s = <<>> \/ (s[1] \notin SpaceSet /\ s[Len(s)] \notin SpaceSet)

\* a letter is a capital exactly when no letter stands directly before it
IsTitleCased(s) ==
    \A i \in 1..Len(s) :
        s[i] \in LetterSet =>
            ((\E u \in 1..Len(UpperChars) : UpperChars[u] = s[i])
                <=> (i = 1 \/ s[i - 1] \notin LetterSet))

\* C18: the patterns are tried in the order of the list and the first one
\* that matches anywhere in the text decides the name, also when a later
\* pattern matches earlier in the text; the name is what that pattern
\* captured, trimmed and in title case; without a match the name is None.
C18_FirstPatternInListDecides ==
    extract_call.done =>
        LET found == MatchingPatterns(extract_call.text)
            name == extract_call.value.name
        IN  IF found = {} THEN name = PyNone
            ELSE LET i == CHOOSE x \in found : \A y \in found : x <= y
                     captured == name_search(name_patterns[i], Lower(extract_call.text)).groups[1]
                 IN  /\ name.type = "str"
                     /\ IsTrimmed(name.s)
                     /\ IsTitleCased(name.s)
                     /\ Lower(name.s) = Strip(captured)

\* "This is bob, My name is alice.": the third pattern matches first in the
\* text, the first pattern of the list decides
C18_Witness ==
    /\ extract_call.done
    /\ extract_call.text = NameIntros[3] \o TxtBob \o <<",", " ">> \o NameIntros[1] \o TxtAlice \o <<".">>
    /\ MatchingPatterns(extract_call.text) = {1, 3}
    /\ extract_call.value.name = PyStr(<<"A", "l", "i", "c", "e">>)

\* C19: the name returned is absent or has between 2 and 30 characters; it
\* is never an empty or one-character string.
C19_NameLengthBounded ==
    extract_call.done =>
        \/ extract_call.value.name = PyNone
        \/ /\ extract_call.value.name.type = "str"
           /\ Len(extract_call.value.name.s) >= NameMin
           /\ Len(extract_call.value.name.s) <= NameMax

\* the substrings of text of the shape local@domain.tld, as <<p, e>>: the
\* address is text[p+1..e]; the local part is of letters, digits and ._%+-,
\* the domain of letters, digits, dots and hyphens, the top-level domain of
\* two letters or more
Addresses(text) ==
    UNION {
        {<<p, e>> :
            p \in {q \in 0..(a - 2) : \A i \in (q + 1)..(a - 1) : text[i] \in EmailLocalSet},
            e \in UNION {
                {f \in (d + TldMin)..Len(text) : \A i \in (d + 1)..f : text[i] \in LetterSet} :
                    d \in {g \in (a + 2)..Len(text) :
                            /\ text[g] = "."
                            /\ \A i \in (a + 1)..(g - 1) : text[i] \in EmailDomainSet}}} :
        a \in {b \in 1..Len(text) : text[b] = "@"}}

\* C20: when the text contains an address local@domain.tld the email
\* returned is the first such address of the text, unchanged; when it
\* contains none the email is absent.
C20_FirstAddressUnchanged ==
    extract_call.done =>
        LET found == Addresses(extract_call.text)
            email == extract_call.value.email
        IN  IF found = {} THEN email = PyNone
            ELSE /\ email.type = "str"
                 /\ \E x \in found :
                        /\ \A y \in found : x[1] <= y[1]
                        /\ email.s = SubSeq(extract_call.text, x[1] + 1, x[2])

\* the remote server answered the call of t with a 2xx status and a body that parsed
AnsweredWithBody(t) ==
    /\ task[t].outcome # PyNone
    /\ task[t].outcome.kind = "http"
    /\ task[t].outcome.status >= 200 /\ task[t].outcome.status < 300
    /\ task[t].outcome.body.kind = "value"

\* C21: when the remote server answers an allowed tool call with a 2xx status
\* and a body that parses, call_mcp_tool returns the parsed body itself,
\* whatever its type.
C21_BodyReturnedVerbatim ==
    \A t \in Tasks :
        (task[t].op \in {"call_mcp_tool", "create_contact_and_schedule"} /\ AnsweredWithBody(t)) =>
            /\ task[t].pc = "returned"
            /\ task[t].ret = Return(task[t].outcome.body.value)

\* a body that is not an object comes back as it is
C21_Witness ==
    \E t \in Tasks :
        /\ task[t].op = "call_mcp_tool"
        /\ AnsweredWithBody(t)
        /\ task[t].outcome.body.value = PyList(<<PyStr(StrError)>>)
        /\ task[t].ret = Return(PyList(<<PyStr(StrError)>>))

\* C22: get_calendar_type never fails; two calls with the same id return the
\* same label, and an id that is not one of the four known calendar ids
\* returns "Unknown".
C22_LookupDeterministicUnknown ==
    \A i \in 1..Len(helper.lookups) :
        /\ \A j \in 1..Len(helper.lookups) :
            helper.lookups[i].calendar_id = helper.lookups[j].calendar_id
                => helper.lookups[i].label = helper.lookups[j].label
        /\ helper.lookups[i].calendar_id \notin
                {"1a2FZj1zqXPbPnrElQD1", "1c0RCj9LXQr9iDQaDTn9", "7pRF2Il5lcRZIMBdSkBx", "CuOcD0x88h7NPvfub9"}
            => helper.lookups[i].label = "Unknown"

\* the same unknown id looked up twice
C22_Witness ==
    /\ Len(helper.lookups) = 2
    /\ helper.lookups[1].calendar_id = "bogus-calendar"
    /\ helper.lookups[2].calendar_id = "bogus-calendar"
    /\ helper.lookups[2].label = "Unknown"

\* C25: for a context that mentions no keyword of any bucket, the category
\* found by the scan of calendar_mappings for select_calendar's result is
\* "default".
C25_NoBucketIsDefaultCategory ==
    (helper.category # NotCalled
        /\ ~Mentions(KwAppraisals) /\ ~Mentions(KwCustom) /\ ~Mentions(KwCampaign))
            => helper.category = "default"

\* the invocation of t returned a Success envelope
ReturnedSuccess(t) ==
    /\ Scheduling(t)
    /\ task[t].pc = "returned"
    /\ task[t].ret.value.success

\* C27: every id that is a value of calendar_mappings has a label: the
\* dictionary of get_available_calendars has an entry other than "Unknown"
\* for each of them, and the calendar_type of a Success envelope is never
\* "Unknown".
C27_MappedCalendarsAreLabelled ==
    /\ helper.available # PyNone =>
            /\ DOMAIN helper.available.fields
                    = {config.calendar_mappings[k] : k \in DOMAIN config.calendar_mappings}
            /\ \A id \in DOMAIN helper.available.fields : helper.available.fields[id] # "Unknown"
    /\ \A t \in Tasks : ReturnedSuccess(t) => task[t].ret.value.calendar_type # "Unknown"

\* a Success on the campaign calendar, and the dictionary with its four entries
C27_Witness ==
    /\ helper.available # PyNone
    /\ helper.available.fields["CuOcD0x88h7NPvfub9"] = "Campaign"
    /\ \E t \in Tasks :
        /\ ReturnedSuccess(t)
        /\ task[t].ret.value.calendar_id = "CuOcD0x88h7NPvfub9"
        /\ task[t].ret.value.calendar_type = "Campaign"

\* C26: whenever schedule_from_conversation returns Success, the calendar_id
\* and the appointment_time of the envelope are the calendar_id and the
\* start_time of the one request that was sent.
C26_EnvelopeMatchesRequest ==
    \A t \in Tasks :
        ReturnedSuccess(t) =>
            /\ Len(task[t].requests) = 1
            /\ task[t].ret.value.calendar_id = task[t].requests[1].json.arguments.calendar_id
            /\ task[t].ret.value.appointment_time = task[t].requests[1].json.arguments.start_time

\* a Success on a calendar other than the default one, at the default time
C26_Witness ==
    \E t \in Tasks :
        /\ ReturnedSuccess(t)
        /\ task[t].args.preferred_time = PyNone
        /\ task[t].ret.value.calendar_id = "7pRF2Il5lcRZIMBdSkBx"
        /\ task[t].requests[1].json.arguments.calendar_id = "7pRF2Il5lcRZIMBdSkBx"

\* two invocations given the same arguments at the same clock, the appointment type apart
DifferOnlyInType(t, u) ==
    /\ Scheduling(t) /\ Scheduling(u)
    /\ task[t].args.appointment_type # task[u].args.appointment_type
    /\ [task[t].args EXCEPT !.appointment_type = "any"] =
       [task[u].args EXCEPT !.appointment_type = "any"]
    /\ task[t].now = task[u].now

\* C28: two schedule_from_conversation invocations that differ only in appointment_type
\* send identical remote requests and, on the same remote response, return identical results.
C28_AppointmentTypeHasNoEffect ==
    \A t, u \in Tasks :
        DifferOnlyInType(t, u) =>
            /\ task[t].requests = task[u].requests
            /\ (Over(t) /\ Over(u) /\ task[t].outcome = task[u].outcome) =>
                    task[t].ret = task[u].ret

C28_Witness ==
    /\ DifferOnlyInType(1, 2)
    /\ ReturnedSuccess(1) /\ ReturnedSuccess(2)
    /\ task[1].outcome = task[2].outcome
    /\ Len(task[1].requests) = 1

IsPrefix(s, r) == Len(s) <= Len(r) /\ SubSeq(r, 1, Len(s)) = s

\* /chat answered the caller with a reply and a history
ChatAnswered(h) == h.endpoint = "chat" /\ h.status = 200

\* user and assistant entries alternate, a user entry first, none left alone
Alternating(messages) ==
    /\ Len(messages) % 2 = 0
    /\ \A i \in 1..Len(messages) :
            messages[i].type = (IF i % 2 = 1 THEN "human" ELSE "ai")

\* C23 as stated: each history returned to a caller by /chat has the history previously
\* returned to that caller by /chat as a prefix, whatever requests were served in between.
C23_ReturnedHistoriesOnlyGrow ==
    [][\A t \in Tasks :
            (ChatAnswered(http[t]) /\ ChatAnswered(http'[t])) =>
                IsPrefix(http[t].content.history, http'[t].content.history)]_vars

\* C23 amended: the message sequence is append-only except for /clear_chat, which empties
\* it for every caller: a step leaves the earlier sequence a prefix of the new one or is a
\* /clear_chat that empties it, and a history returned to a caller by /chat has the history
\* previously returned to that caller as a prefix whenever no /clear_chat has wiped that
\* earlier history from the memory.
C23_AppendOnlyUntilCleared ==
    [][/\ IsPrefix(memory, memory') \/ memory' = <<>>
       /\ (memory # <<>> /\ memory' = <<>>) =>
                \E t \in Tasks : http'[t].endpoint = "clear_chat"
       /\ \A t \in Tasks :
            (/\ ChatAnswered(http[t]) /\ ChatAnswered(http'[t])
             /\ IsPrefix(http[t].content.history, serialize_messages(memory))) =>
                IsPrefix(http[t].content.history, http'[t].content.history)]_vars

C23_Witness ==
    /\ ChatAnswered(http[1]) /\ ChatAnswered(http[2])
    /\ Len(http[2].content.history) = 2
    /\ Len(http[1].content.history) = 4
    /\ IsPrefix(http[2].content.history, http[1].content.history)
    /\ http[1].content.history = serialize_messages(memory)

\* C29: a /chat request that succeeds appends to the shared memory exactly its raw
\* user_input and then its reply, adjacent, and answers with the whole memory; a /chat
\* request that fails appends nothing; the memory changes in no other way but by being
\* emptied, so it has even length and alternates user and assistant entries.
C29_ChatAppendsOneExchange ==
    [][/\ \/ memory' = memory
          \/ memory' = <<>>
          \/ \E t \in Tasks :
                /\ ChatAnswered(http'[t])
                /\ memory' = memory \o
                        <<[type |-> "human", content |-> http'[t].req.user_input],
                          [type |-> "ai", content |-> http'[t].content.reply]>>
                /\ http'[t].content.history =
                        [i \in 1..Len(memory') |->
                            [role |-> memory'[i].type, content |-> memory'[i].content]]
       /\ \A t \in Tasks :
            (http'[t] # http[t] /\ http'[t].endpoint = "chat" /\ http'[t].status = 500) =>
                memory' = memory
       /\ Alternating(memory) /\ Alternating(memory')]_vars

\* the history returned to caller 1 holds the exchange of caller 2 before its own
C29_Witness ==
    /\ ChatAnswered(http[1]) /\ ChatAnswered(http[2])
    /\ http[1].req.user_input # http[2].req.user_input
    /\ Len(http[1].content.history) = 4
    /\ http[1].content.history[1].content = http[2].req.user_input
    /\ http[1].content.history[3].content = http[1].req.user_input
    /\ http[1].content.history[3].content # Strip(http[1].req.user_input)
    /\ Len(memory) = 4

\* C30: with no scheduler /schedule_appointment answers 503 with success false and no
\* invocation is ever started; with one it answers 200 with success true exactly when
\* schedule_from_conversation returned a success, 400 with success false exactly when
\* it returned a failure, and 500 with success false when it raised.
C30_ScheduleAppointmentStatus ==
    \A t \in Tasks :
        /\ ~ghl_scheduler => task[t] = IdleTask
        /\ http[t].endpoint = "schedule_appointment" =>
            IF ~ghl_scheduler
            THEN http[t].status = 503 /\ ~http[t].content.success
            ELSE \/ Pending(t) /\ task[t].pc = "awaiting"
                 \/ /\ task[t].pc = "returned" /\ task[t].ret.value.success
                    /\ http[t].status = 200 /\ http[t].content.success
                 \/ /\ task[t].pc = "returned" /\ ~task[t].ret.value.success
                    /\ http[t].status = 400 /\ ~http[t].content.success
                 \/ /\ task[t].pc = "raised"
                    /\ http[t].status = 500 /\ ~http[t].content.success
                 \/ task[t].pc = "idle" /\ http[t].status \in {200, 400, 500}

C30_Witness ==
    /\ http[1].endpoint = "schedule_appointment" /\ http[1].status = 200
    /\ task[1].pc = "returned" /\ task[1].ret.value.success
    /\ http[2].endpoint = "schedule_appointment" /\ http[2].status = 400
    /\ task[2].pc = "returned" /\ ~task[2].ret.value.success
    /\ Len(task[2].requests) = 1

\* the query holds a disallowed keyword, in whatever case
Unsafe(query) ==
    \E i \in 1..Len(DISALLOWED_KEYWORDS) : Contains(Lower(query), DISALLOWED_KEYWORDS[i])

\* the query names jewelry
JewelryRelated(query) ==
    \E i \in 1..Len(JEWELRY_KEYWORDS) : Contains(Lower(query), JEWELRY_KEYWORDS[i])

\* the service answered a dictionary without results
NoResults(answer) ==
    /\ answer.kind = "json"
    /\ answer.data.type = "dict"
    /\ "results" \in DOMAIN answer.data.fields => answer.data.fields.results.items = <<>>

====
